---- MODULE Spec2Model ----
(***************************************************************************)
(* A model of personal-os-v1: the lineage ledger of storage/schema.py, the *)
(* entity merge job of scripts/hybrid_entity_resolution_with_lineage.py    *)
(* and the decision builder of scripts/reconcile_with_decisions.py.        *)
(*                                                                         *)
(* Each subsystem has its own specification over the shared variables:     *)
(*   SpecLedger  add_entity_lineage and resolve_current_entity_id          *)
(*   SpecMerge   one call of _merge_duplicates_with_lineage                *)
(*   SpecRecon   the reconciliation loops of reconcile_with_decisions.main *)
(*   SpecDecision  one call of create_reconciliation_decision              *)
(* Python dicts are functions whose DOMAIN is the set of keys present, so  *)
(* that d.get(k, default) is modelled by Get(d, k, default).               *)
(***************************************************************************)
EXTENDS Integers, Sequences, FiniteSets, TLC

VARIABLES
    \* ---- StorageSchema (lineage ledger) and one resolver call
    entity_lineage,     \* StorageSchema.entity_lineage: list of EntityLineage
    res_pc,             \* position of resolve_current_entity_id: idle | loop | done
    entity_id,          \* its argument
    current_id,         \* its local current_id
    visited,            \* its local visited set
    \* ---- EntityMergeJobWithLineage and one call of _merge_duplicates_with_lineage
    entities,           \* the caller's dict: id -> entity record
    duplicates,         \* the candidate pairs <<id1, id2, similarity>>
    merged_entities,    \* entities.copy(): a new dict over the same record objects
    merge_log,          \* list of merge-log entries
    merged_ids,         \* the set the loop consults before each pair
    entity_lineages,    \* self.entity_lineages
    lineage_counter,    \* self.lineage_counter
    pair_ix,            \* number of pairs the for loop has consumed
    merge_pc,           \* idle | loop | returned | raised (KeyError left the call)
    \* ---- reconcile_with_decisions.main
    transactions,       \* the observations loaded from the observations file
    overlap_groups,     \* the groups loaded from overlap_groups.json
    obs_by_id,          \* observation index
    processed_obs_ids,  \* ids consumed by the overlap groups
    canonical_transactions,
    reconciliation_decisions,
    decision_counter,
    group_ix,           \* overlap groups consumed by the first loop
    obs_ix,             \* observations consumed by the second loop
    recon_pc,           \* idle | groups | singles | done
    \* ---- one call of create_reconciliation_decision
    observations,       \* its argument observations
    canonical,          \* its argument canonical
    decision,           \* the ReconciliationDecision it returned
    dec_pc,             \* idle | called | returned
    \* ---- migrate_to_schema and the StorageSchema it fills
    canonical_data,     \* the transactions of the ledger file the migration reads
    nodes,              \* StorageSchema.nodes: id -> node
    attribute_facts,    \* StorageSchema.attribute_facts
    relationship_facts, \* StorageSchema.relationship_facts
    entity_registry,    \* merchant name -> entity id
    mig_ix,             \* transactions consumed by the migration loop
    mig_pc,             \* idle | loop | done | raised (an exception left the call)
    clock,              \* the wall clock, in microseconds
    get_args,           \* the last read operation of the store and its arguments
    get_result,         \* what it returned
    schema_decisions,   \* StorageSchema.reconciliation_decisions
    \* ---- EntityMergeJobWithLineage.run_merge_with_lineage and its files
    entities_file,      \* content of self.entities_file
    backup_file,        \* content of the .json.backup file
    lineage_file,       \* content of entity_lineage.json
    merge_report,       \* the report written and returned
    job_pc,             \* idle | merging | backed_up | saved | returned
    \* ---- run_integrated_pipeline.main
    pipe_pc,            \* idle | stage25 | stage25_run | stage3 | stage3_run |
                        \* stage4_check | stage4 | exited
    returncodes,        \* stage -> result.returncode of the command it ran
    printed,            \* the headline messages main has printed
    exit_status,        \* the status the pipeline process ended with
    data_files,         \* the files under data/ whose presence main and its
                        \* commands test before they read them
    \* ---- a caller that runs the merge a second time
    first_run           \* what the first call left: the collection and the record count

ledgerVars == <<entity_lineage, res_pc, entity_id, current_id, visited>>
mergeVars == <<entities, duplicates, merged_entities, merge_log, merged_ids,
               entity_lineages, lineage_counter, pair_ix, merge_pc>>
reconVars == <<transactions, overlap_groups, obs_by_id, processed_obs_ids,
               canonical_transactions, reconciliation_decisions, decision_counter,
               group_ix, obs_ix, recon_pc, observations, canonical, decision, dec_pc>>
migVars == <<canonical_data, nodes, attribute_facts, relationship_facts,
             entity_registry, mig_ix, mig_pc, clock, get_args, get_result,
                   schema_decisions>>
jobVars == <<entities_file, backup_file, lineage_file, merge_report, job_pc>>
pipeVars == <<pipe_pc, returncodes, printed, exit_status, data_files>>
rerunVars == <<first_run>>
vars == <<entity_lineage, res_pc, entity_id, current_id, visited,
          entities, duplicates, merged_entities, merge_log, merged_ids,
          entity_lineages, lineage_counter, pair_ix, merge_pc,
          transactions, overlap_groups, obs_by_id, processed_obs_ids,
          canonical_transactions, reconciliation_decisions, decision_counter,
          group_ix, obs_ix, recon_pc, observations, canonical, decision, dec_pc,
          canonical_data, nodes, attribute_facts, relationship_facts,
          entity_registry, mig_ix, mig_pc, clock, get_args, get_result,
          schema_decisions,
          entities_file, backup_file, lineage_file, merge_report, job_pc,
          pipe_pc, returncodes, printed, exit_status, data_files, first_run>>

\* What the operations of one subsystem leave alone.
outsideLedger == <<mergeVars, reconVars, migVars, jobVars, pipeVars, rerunVars>>
outsideMerge == <<ledgerVars, reconVars, migVars, jobVars, pipeVars, rerunVars>>
outsideRecon == <<ledgerVars, mergeVars, migVars, jobVars, pipeVars, rerunVars>>
outsideMigrate == <<ledgerVars, mergeVars, reconVars, jobVars, pipeVars, rerunVars>>
outsideJob == <<ledgerVars, reconVars, migVars, pipeVars, rerunVars>>

\* ------------------------------------------------------------------ bounds
MaxLedger == 3
MaxPairs == 3
MaxObs == 2
MaxGroups == 2

\* Entity ids that occur in ledgers.
LedgerIds == {"X", "Y", "Z"}

NoId == "-"

\* Python's None where a string is expected.
None == "None"

\* The data files whose presence is tested: raw_observations.json or its
\* fallback combined_raw_ledger.json (reconcile_with_decisions 120-126),
\* canonical_ledger_with_decisions.json (run_integrated_pipeline 119-123)
\* and canonical_ledger_v6.json, which migrate_to_schema opens (line 250).
\* The entities file is absent when entities_file is the empty dict.
ObservationsFile == "observations"
DecisionsLedgerFile == "canonical_ledger_with_decisions"
LedgerV6File == "canonical_ledger_v6"
DataFiles == {ObservationsFile, DecisionsLedgerFile, LedgerV6File}

\* ------------------------------------------------------------------ helpers
\* dict.get(k, default)
Get(d, k, default) == IF k \in DOMAIN d THEN d[k] ELSE default

\* ================================================================== ledger
\* EntityLineage, reduced to the two fields the resolver reads.
LineageEdge(old, new) == [old_entity_id |-> old, new_entity_id |-> new]

\* The for loop of the resolver: index of the first record whose
\* old_entity_id is cur (the loop breaks at the first match), 0 when none.
FirstNewer(ledger, cur) ==
    LET hits == {i \in 1..Len(ledger) : ledger[i].old_entity_id = cur}
    IN IF hits = {} THEN 0 ELSE CHOOSE i \in hits : \A j \in hits : i <= j

\* Mutant of ResolveLoop: the while loop forgotten, one hop only.
ResolveLoop_OneHop(ledger, cur, seen) ==
    LET i == FirstNewer(ledger, cur)
    IN IF i = 0 THEN cur ELSE ledger[i].new_entity_id

\* The while loop of the resolver, from the state (cur, seen).
RECURSIVE ResolveLoop(_, _, _)
ResolveLoop(ledger, cur, seen) ==
    IF cur \in seen THEN cur
    ELSE LET i == FirstNewer(ledger, cur)
         IN IF i = 0 THEN cur
            ELSE ResolveLoop(ledger, ledger[i].new_entity_id, seen \cup {cur})

\* Mutant of resolve_current_entity_id: the argument marked visited before
\* the loop, so that the loop condition fails at once.
resolve_current_entity_id_PreVisited(ledger, e) == ResolveLoop(ledger, e, {e})

resolve_current_entity_id(ledger, e) == ResolveLoop(ledger, e, {})

\* Ids reachable from the set S along old_entity_id -> new_entity_id.
RECURSIVE Closure(_, _)
Closure(ledger, S) ==
    LET T == S \cup {ledger[i].new_entity_id :
                        i \in {j \in 1..Len(ledger) : ledger[j].old_entity_id \in S}}
    IN IF T = S THEN S ELSE Closure(ledger, T)

HasRecord(ledger, e) == \E i \in 1..Len(ledger) : ledger[i].old_entity_id = e

Acyclic(ledger) ==
    \A i \in 1..Len(ledger) :
        ledger[i].old_entity_id \notin Closure(ledger, {ledger[i].new_entity_id})

UniqueOld(ledger) ==
    \A i, j \in 1..Len(ledger) :
        ledger[i].old_entity_id = ledger[j].old_entity_id => i = j

\* StorageSchema.add_entity_lineage: append, nothing else.
add_entity_lineage(record) ==
    /\ res_pc = "idle"
    /\ Len(entity_lineage) < MaxLedger
    /\ entity_lineage' = Append(entity_lineage, record)
    /\ UNCHANGED <<res_pc, entity_id, current_id, visited>>
    /\ UNCHANGED outsideLedger

\* Entry of resolve_current_entity_id: current_id = entity_id; visited = set()
ResolveCall(e) ==
    /\ res_pc = "idle"
    /\ res_pc' = "loop"
    /\ entity_id' = e
    /\ current_id' = e
    /\ visited' = {}
    /\ UNCHANGED entity_lineage
    /\ UNCHANGED outsideLedger

\* Mutant of ResolveStep: the loop without its visited check.
ResolveStep_NoVisited ==
    /\ res_pc = "loop"
    /\ LET i == FirstNewer(entity_lineage, current_id)
       IN /\ visited' = visited \cup {current_id}
          /\ IF i = 0
             THEN res_pc' = "done" /\ UNCHANGED current_id
             ELSE res_pc' = "loop" /\
                  current_id' = entity_lineage[i].new_entity_id
    /\ UNCHANGED <<entity_lineage, entity_id>>
    /\ UNCHANGED outsideLedger

\* One evaluation of the while condition and, when it holds, one iteration.
ResolveStep ==
    /\ res_pc = "loop"
    /\ IF current_id \in visited
       THEN res_pc' = "done" /\ UNCHANGED <<current_id, visited>>
       ELSE LET i == FirstNewer(entity_lineage, current_id)
            IN /\ visited' = visited \cup {current_id}
               /\ IF i = 0
                  THEN res_pc' = "done" /\ UNCHANGED current_id
                  ELSE res_pc' = "loop" /\
                       current_id' = entity_lineage[i].new_entity_id
    /\ UNCHANGED <<entity_lineage, entity_id>>
    /\ UNCHANGED outsideLedger

\* return current_id
ResolveReturn ==
    /\ res_pc = "done"
    /\ res_pc' = "idle"
    /\ entity_id' = NoId
    /\ current_id' = NoId
    /\ visited' = {}
    /\ UNCHANGED entity_lineage
    /\ UNCHANGED outsideLedger

\* No merge job in this specification.
MergeIdle ==
    /\ entities = <<>>
    /\ duplicates = <<>>
    /\ merged_entities = <<>>
    /\ merge_log = <<>>
    /\ merged_ids = {}
    /\ entity_lineages = <<>>
    /\ lineage_counter = 0
    /\ pair_ix = 0
    /\ merge_pc = "idle"

\* StorageSchema(): empty ledger, no resolver call in progress.
LedgerIdle ==
    /\ entity_lineage = <<>>
    /\ res_pc = "idle"
    /\ entity_id = NoId
    /\ current_id = NoId
    /\ visited = {}

\* No reconciliation run and no decision call in this specification.
ReconIdle ==
    /\ transactions = <<>>
    /\ overlap_groups = <<>>
    /\ obs_by_id = <<>>
    /\ processed_obs_ids = {}
    /\ canonical_transactions = <<>>
    /\ reconciliation_decisions = <<>>
    /\ decision_counter = 0
    /\ group_ix = 0
    /\ obs_ix = 0
    /\ recon_pc = "idle"
    /\ observations = <<>>
    /\ canonical = <<>>
    /\ decision = <<>>
    /\ dec_pc = "idle"

\* StorageSchema(): an empty store; no migration and no read in this
\* specification.
MigrateIdle ==
    /\ canonical_data = <<>>
    /\ nodes = <<>>
    /\ attribute_facts = <<>>
    /\ relationship_facts = <<>>
    /\ entity_registry = <<>>
    /\ mig_ix = 0
    /\ mig_pc = "idle"
    /\ clock = 0
    /\ get_args = <<>>
    /\ get_result = <<>>
    /\ schema_decisions = <<>>

\* No merge job has been run: no file of it has been written.
JobIdle ==
    /\ entities_file = <<>>
    /\ backup_file = <<>>
    /\ lineage_file = <<>>
    /\ merge_report = <<>>
    /\ job_pc = "idle"

\* The integrated pipeline has not been started, and no caller has run the
\* merge a second time.
PipeIdle ==
    /\ pipe_pc = "idle"
    /\ returncodes = <<>>
    /\ printed = {}
    /\ exit_status = None
    /\ data_files = {}
    /\ first_run = <<>>

LedgerInit ==
    /\ LedgerIdle
    /\ MergeIdle
    /\ ReconIdle
    /\ MigrateIdle
    /\ JobIdle
    /\ PipeIdle

LedgerNext ==
    \/ \E o \in LedgerIds, n \in LedgerIds : add_entity_lineage(LineageEdge(o, n))
    \/ \E e \in LedgerIds : ResolveCall(e)
    \/ ResolveStep
    \/ ResolveReturn

SpecLedger == LedgerInit /\ [][LedgerNext]_vars

\* The resolver is a sequential loop: once called it keeps running.
SpecLedgerFair == SpecLedger /\ WF_vars(ResolveStep)

\* ---- the ledger with the timestamp of each record
\* EntityLineage with its timestamp, which the resolver never reads.
Timestamps == {1, 2}

TimedEdge(old, new, ts) ==
    [old_entity_id |-> old, new_entity_id |-> new, timestamp |-> ts]

TimedLedgerNext ==
    \/ \E o \in LedgerIds, n \in LedgerIds, ts \in Timestamps :
          add_entity_lineage(TimedEdge(o, n, ts))
    \/ \E e \in LedgerIds : ResolveCall(e)
    \/ ResolveStep
    \/ ResolveReturn

SpecLedgerTimed == LedgerInit /\ [][TimedLedgerNext]_vars

\* ================================================================== merge job
\* datetime.now().isoformat(): a logical clock, read as the number of loop
\* iterations completed. No modelled operation compares two timestamps.
Now == pair_ix

\* d[k] = v
Put(d, k, v) == [x \in DOMAIN d \cup {k} |-> IF x = k THEN v ELSE d[x]]

\* f"{n:06d}" for n >= 0
Fmt06d(n) ==
    IF n < 10 THEN "00000" \o ToString(n)
    ELSE IF n < 100 THEN "0000" \o ToString(n)
    ELSE IF n < 1000 THEN "000" \o ToString(n)
    ELSE IF n < 10000 THEN "00" \o ToString(n)
    ELSE IF n < 100000 THEN "0" \o ToString(n)
    ELSE ToString(n)

\* f"{similarity:.2f}"; similarities are carried in hundredths (92 is 0.92).
Fmt2f(h) ==
    ToString(h \div 100) \o "." \o ToString((h % 100) \div 10) \o ToString(h % 10)

\* f"lineage_{self.lineage_counter:06d}"
LineageId(counter) == "lineage_" \o Fmt06d(counter)

\* ---- the inputs of a run
\* Ids of the entity collection, and one id that no collection holds.
MergeIds == {"A", "B", "C"}
AbsentId == "Q"

EntityFull(name, alias, tx, amount) ==
    [canonical_name |-> name, aliases |-> {alias},
     transaction_count |-> tx, total_amount_usd |-> amount]

\* An entity record without transaction_count, total_amount_usd or aliases.
EntityBare(name) == [canonical_name |-> name]

\* Collections over MergeIds: equal and unequal counts in both orders, and
\* records with missing fields. aliases is a list in the code; only its
\* set of members is modelled, since list(set(...)) fixes no order.
EntityCollections ==
    {[id \in MergeIds |-> CASE id = "A" -> a [] id = "B" -> b [] OTHER -> c] :
        a \in {EntityBare("Alpha"), EntityFull("Alpha", "alpha", 10, 500)},
        b \in {EntityFull("Beta", "beta", 3, 90), EntityFull("Beta", "beta", 10, 90)},
        c \in {[canonical_name |-> "Gamma", transaction_count |-> 3]}}

\* The score the matcher gave a pair, in hundredths: one score per pair.
PairSimilarity(id1, id2) ==
    (CASE id1 = "A" -> 90 [] id1 = "B" -> 80 [] id1 = "C" -> 70 [] OTHER -> 60)
    + (CASE id2 = "A" -> 0 [] id2 = "B" -> 2 [] id2 = "C" -> 4 [] OTHER -> 6)

\* Candidate pairs: every ordered pair of collection ids (a pair of an id
\* with itself included) and two pairs that name the absent id.
PairChoices ==
    {<<a, b, PairSimilarity(a, b)>> : a \in MergeIds, b \in MergeIds}
    \cup {<<"A", AbsentId, PairSimilarity("A", AbsentId)>>,
          <<AbsentId, "B", PairSimilarity(AbsentId, "B")>>}

DuplicateLists == UNION {[1..n -> PairChoices] : n \in 0..MaxPairs}

\* ---- one iteration of the for loop
\* if id1 in merged_ids or id2 in merged_ids: continue
AlreadyMerged(ids, id1, id2) == id1 \in ids \/ id2 \in ids

\* merged_entities[id1], merged_entities[id2] raise KeyError on a missing key.
RaisesKeyError(heap, id1, id2) == id1 \notin DOMAIN heap \/ id2 \notin DOMAIN heap

\* Mutant of SelectPrimary: `>` in place of `>=`, a tie goes to id2.
SelectPrimary_TieToSecond(heap, id1, id2) ==
    LET tx_count1 == Get(heap[id1], "transaction_count", 0)
        tx_count2 == Get(heap[id2], "transaction_count", 0)
    IN IF tx_count1 > tx_count2 THEN <<id1, id2>> ELSE <<id2, id1>>

\* <<primary_id, secondary_id>>
SelectPrimary(heap, id1, id2) ==
    LET tx_count1 == Get(heap[id1], "transaction_count", 0)
        tx_count2 == Get(heap[id2], "transaction_count", 0)
    IN IF tx_count1 >= tx_count2 THEN <<id1, id2>> ELSE <<id2, id1>>

\* Mutant of NewLineage: old_entity_id and new_entity_id exchanged.
NewLineage_Swapped(heap, id1, id2, similarity, counter, now) ==
    LET ps == SelectPrimary(heap, id1, id2)
        primary == heap[ps[1]]
        secondary == heap[ps[2]]
        tx_count2 == Get(heap[id2], "transaction_count", 0)
    IN [lineage_id |-> LineageId(counter),
        timestamp |-> now,
        old_entity_id |-> ps[1],
        new_entity_id |-> ps[2],
        operation |-> "merge",
        reason |-> "Duplicate detection: similarity " \o Fmt2f(similarity),
        confidence |-> similarity,
        performed_by |-> "automated_merge",
        affected_statement_ids |-> <<>>,
        metadata |-> [merged_canonical_name |-> Get(secondary, "canonical_name", None),
                      primary_canonical_name |-> Get(primary, "canonical_name", None),
                      transaction_count_transferred |-> tx_count2,
                      amount_transferred |-> Get(secondary, "total_amount_usd", 0)],
        created_at |-> now]

\* The EntityLineage record of one merge.
NewLineage(heap, id1, id2, similarity, counter, now) ==
    LET ps == SelectPrimary(heap, id1, id2)
        primary == heap[ps[1]]
        secondary == heap[ps[2]]
        tx_count2 == Get(heap[id2], "transaction_count", 0)
    IN [lineage_id |-> LineageId(counter),
        timestamp |-> now,
        old_entity_id |-> ps[2],
        new_entity_id |-> ps[1],
        operation |-> "merge",
        reason |-> "Duplicate detection: similarity " \o Fmt2f(similarity),
        confidence |-> similarity,
        performed_by |-> "automated_merge",
        affected_statement_ids |-> <<>>,
        metadata |-> [merged_canonical_name |-> Get(secondary, "canonical_name", None),
                      primary_canonical_name |-> Get(primary, "canonical_name", None),
                      transaction_count_transferred |-> tx_count2,
                      amount_transferred |-> Get(secondary, "total_amount_usd", 0)],
        created_at |-> now]

\* Mutant of MergeData: total_amount_usd of the primary left as it was.
MergeData_AmountNotSummed(heap, p, s, lineage_id, now) ==
    LET h1 == [heap EXCEPT ![p] = Put(@, "aliases",
                  Get(heap[p], "aliases", {}) \cup Get(heap[s], "aliases", {})
                  \cup {Get(heap[s], "canonical_name", "")})]
        h2 == [h1 EXCEPT ![p] = Put(@, "transaction_count",
                  Get(h1[p], "transaction_count", 0) + Get(h1[s], "transaction_count", 0))]
        h3 == [h2 EXCEPT ![p] = Put(@, "total_amount_usd",
                  Get(h2[p], "total_amount_usd", 0))]
        h4 == [h3 EXCEPT ![p] = Put(Put(Put(@,
                  "merged_from", Get(h3[p], "merged_from", <<>>) \o <<s>>),
                  "last_merged", now),
                  "lineage_id", lineage_id)]
    IN [h4 EXCEPT ![s] = Put(Put(Put(Put(@,
                  "status", "superseded"),
                  "superseded_by", p),
                  "superseded_at", now),
                  "lineage_id", lineage_id)]

\* Mutant of MergeData: the secondary is not marked superseded.
MergeData_NoTombstone(heap, p, s, lineage_id, now) ==
    LET h1 == [heap EXCEPT ![p] = Put(@, "aliases",
                  Get(heap[p], "aliases", {}) \cup Get(heap[s], "aliases", {})
                  \cup {Get(heap[s], "canonical_name", "")})]
        h2 == [h1 EXCEPT ![p] = Put(@, "transaction_count",
                  Get(h1[p], "transaction_count", 0) + Get(h1[s], "transaction_count", 0))]
        h3 == [h2 EXCEPT ![p] = Put(@, "total_amount_usd",
                  Get(h2[p], "total_amount_usd", 0) + Get(h2[s], "total_amount_usd", 0))]
    IN [h3 EXCEPT ![p] = Put(Put(Put(@,
                  "merged_from", Get(h3[p], "merged_from", <<>>) \o <<s>>),
                  "last_merged", now),
                  "lineage_id", lineage_id)]

\* The record objects after the merge of secondary s into primary p. heap
\* maps each id to its record object; when p = s the two names denote one
\* object and every assignment below lands on it.
MergeData(heap, p, s, lineage_id, now) ==
    LET h1 == [heap EXCEPT ![p] = Put(@, "aliases",
                  Get(heap[p], "aliases", {}) \cup Get(heap[s], "aliases", {})
                  \cup {Get(heap[s], "canonical_name", "")})]
        h2 == [h1 EXCEPT ![p] = Put(@, "transaction_count",
                  Get(h1[p], "transaction_count", 0) + Get(h1[s], "transaction_count", 0))]
        h3 == [h2 EXCEPT ![p] = Put(@, "total_amount_usd",
                  Get(h2[p], "total_amount_usd", 0) + Get(h2[s], "total_amount_usd", 0))]
        h4 == [h3 EXCEPT ![p] = Put(Put(Put(@,
                  "merged_from", Get(h3[p], "merged_from", <<>>) \o <<s>>),
                  "last_merged", now),
                  "lineage_id", lineage_id)]
        h5 == [h4 EXCEPT ![s] = Put(Put(Put(Put(@,
                  "status", "superseded"),
                  "superseded_by", p),
                  "superseded_at", now),
                  "lineage_id", lineage_id)]
    IN h5

\* merge_log.append({...})
LogEntry(p, s, similarity, lineage_id, now) ==
    [primary |-> p, secondary |-> s, similarity |-> similarity,
     timestamp |-> now, lineage_id |-> lineage_id]

\* Lines 140-142: merged_entities = entities.copy(); merge_log = []; merged_ids = set()
MergeCall ==
    /\ merge_pc = "idle"
    /\ merge_pc' = "loop"
    /\ merged_entities' = entities
    /\ merge_log' = <<>>
    /\ merged_ids' = {}
    /\ pair_ix' = 0
    /\ UNCHANGED <<entities, duplicates, entity_lineages, lineage_counter>>
    /\ UNCHANGED outsideMerge

\* One iteration of `for id1, id2, similarity in duplicates`.
MergePair ==
    /\ merge_pc = "loop"
    /\ pair_ix < Len(duplicates)
    /\ LET id1 == duplicates[pair_ix + 1][1]
           id2 == duplicates[pair_ix + 1][2]
           similarity == duplicates[pair_ix + 1][3]
       IN IF AlreadyMerged(merged_ids, id1, id2)
          THEN /\ pair_ix' = pair_ix + 1
               /\ UNCHANGED <<entities, merged_entities, merge_log, entity_lineages,
                              lineage_counter, merge_pc>>
          ELSE IF RaisesKeyError(merged_entities, id1, id2)
          THEN /\ merge_pc' = "raised"
               /\ UNCHANGED <<entities, merged_entities, merge_log, entity_lineages,
                              lineage_counter, pair_ix>>
          ELSE LET ps == SelectPrimary(merged_entities, id1, id2)
                   lineage == NewLineage(merged_entities, id1, id2, similarity,
                                         lineage_counter, Now)
                   heap == MergeData(merged_entities, ps[1], ps[2],
                                     lineage.lineage_id, Now)
               IN /\ entity_lineages' = Append(entity_lineages, lineage)
                  /\ lineage_counter' = lineage_counter + 1
                  /\ merged_entities' = heap
                  \* the caller's dict holds the same record objects
                  /\ entities' = [k \in DOMAIN entities |-> heap[k]]
                  /\ merge_log' = Append(merge_log,
                        LogEntry(ps[1], ps[2], similarity, lineage.lineage_id, Now))
                  /\ pair_ix' = pair_ix + 1
                  /\ UNCHANGED merge_pc
    /\ UNCHANGED <<duplicates, merged_ids>>
    /\ UNCHANGED outsideMerge

\* return merged_entities, merge_log
MergeReturn ==
    /\ merge_pc = "loop"
    /\ pair_ix = Len(duplicates)
    /\ merge_pc' = "returned"
    /\ UNCHANGED <<entities, duplicates, merged_entities, merge_log, merged_ids,
                   entity_lineages, lineage_counter, pair_ix>>
    /\ UNCHANGED outsideMerge

\* EntityMergeJobWithLineage.__init__, and the arguments of the call.
MergeInit ==
    /\ entities \in EntityCollections
    /\ duplicates \in DuplicateLists
    /\ merged_entities = <<>>
    /\ merge_log = <<>>
    /\ merged_ids = {}
    /\ entity_lineages = <<>>
    /\ lineage_counter = 0
    /\ pair_ix = 0
    /\ merge_pc = "idle"
    /\ LedgerIdle
    /\ ReconIdle
    /\ MigrateIdle
    /\ JobIdle
    /\ PipeIdle

MergeNext ==
    \/ MergeCall
    \/ MergePair
    \/ MergeReturn

SpecMerge == MergeInit /\ [][MergeNext]_vars

\* ---- the merge applied a second time
\* A second call of _merge_duplicates_with_lineage on the same job, with the
\* collection the first call returned and the same candidate pairs. The
\* lineage list and the counter belong to the job and are kept.
MergeAgain ==
    /\ merge_pc = "returned"
    /\ first_run = <<>>
    /\ first_run' = [entities |-> merged_entities,
                     lineage_count |-> Len(entity_lineages)]
    /\ entities' = merged_entities
    /\ merge_pc' = "loop"
    /\ merge_log' = <<>>
    /\ merged_ids' = {}
    /\ pair_ix' = 0
    /\ UNCHANGED <<merged_entities, duplicates, entity_lineages, lineage_counter>>
    /\ UNCHANGED <<ledgerVars, reconVars, migVars, jobVars, pipeVars>>

MergeTwiceNext ==
    \/ MergeNext
    \/ MergeAgain

SpecMergeTwice == MergeInit /\ [][MergeTwiceNext]_vars

\* ================================================================== merge job run
\* run_merge_with_lineage: load, find duplicates, merge, back up, save,
\* write the lineage file and the report. self._find_duplicates belongs to
\* the base class; the pairs it returns are an input (duplicates).

\* Lines 59-75: data = json.load(f); entities = data.get('entities', {});
\* with no duplicate the job returns at once and writes nothing.
JobLoad ==
    /\ job_pc = "idle"
    /\ merge_pc = "idle"
    /\ entities' = Get(entities_file, "entities", <<>>)
    /\ IF duplicates = <<>>
       THEN /\ job_pc' = "returned"
            /\ merge_report' = [duplicates_found |-> 0, entities_merged |-> 0,
                                lineage_records |-> 0]
       ELSE /\ job_pc' = "merging"
            /\ UNCHANGED merge_report
    /\ UNCHANGED <<duplicates, merged_entities, merge_log, merged_ids, entity_lineages,
                   lineage_counter, pair_ix, merge_pc>>
    /\ UNCHANGED <<entities_file, backup_file, lineage_file>>
    /\ UNCHANGED outsideJob

\* Lines 81-84: json.dump(data, backup_file). data['entities'] is the dict
\* entities, whose record objects the merge has updated in place.
JobBackup ==
    /\ job_pc = "merging"
    /\ merge_pc = "returned"
    /\ backup_file' = Put(entities_file, "entities", entities)
    /\ job_pc' = "backed_up"
    /\ UNCHANGED mergeVars
    /\ UNCHANGED <<entities_file, lineage_file, merge_report>>
    /\ UNCHANGED outsideJob

\* Lines 86-90: data['entities'] = merged_entities; data['last_merge'] = now;
\* json.dump(data, entities_file).
JobSave ==
    /\ job_pc = "backed_up"
    /\ entities_file' = Put(Put(entities_file, "entities", merged_entities),
                            "last_merge", Now)
    /\ job_pc' = "saved"
    /\ UNCHANGED mergeVars
    /\ UNCHANGED <<backup_file, lineage_file, merge_report>>
    /\ UNCHANGED outsideJob

\* Lines 92-127: the lineage file and the merge report.
JobReport ==
    /\ job_pc = "saved"
    /\ lineage_file' = [generated_at |-> Now, version |-> "1.0",
                        lineage_count |-> Len(entity_lineages),
                        lineage |-> entity_lineages]
    /\ merge_report' =
          [timestamp |-> Now,
           duplicates_found |-> Len(duplicates),
           entities_before |-> Cardinality(DOMAIN entities),
           entities_after |-> Cardinality(DOMAIN merged_entities),
           entities_merged |-> Cardinality(DOMAIN entities)
                                  - Cardinality(DOMAIN merged_entities),
           lineage_records_created |-> Len(entity_lineages),
           merge_log |-> merge_log]
    /\ job_pc' = "returned"
    /\ UNCHANGED mergeVars
    /\ UNCHANGED <<entities_file, backup_file>>
    /\ UNCHANGED outsideJob

\* The entities file on disk and the pairs the matcher will return.
JobInit ==
    /\ entities_file \in {[entities |-> e] : e \in EntityCollections}
    /\ duplicates \in DuplicateLists
    /\ backup_file = <<>>
    /\ lineage_file = <<>>
    /\ merge_report = <<>>
    /\ job_pc = "idle"
    /\ entities = <<>>
    /\ merged_entities = <<>>
    /\ merge_log = <<>>
    /\ merged_ids = {}
    /\ entity_lineages = <<>>
    /\ lineage_counter = 0
    /\ pair_ix = 0
    /\ merge_pc = "idle"
    /\ LedgerIdle
    /\ ReconIdle
    /\ MigrateIdle
    /\ PipeIdle

JobNext ==
    \/ JobLoad
    \/ (job_pc = "merging" /\ MergeNext)
    \/ JobBackup
    \/ JobSave
    \/ JobReport

SpecMergeJob == JobInit /\ [][JobNext]_vars

\* ================================================================== decisions
\* Python truthiness of a string-or-None value, and `a or b`.
Truthy(v) == v \notin {None, ""}
Or(a, b) == IF Truthy(a) THEN a ELSE b

\* A field value of a canonical record is a raw scalar or a dict. A scalar
\* v is carried boxed as [scalar |-> v]; isinstance(field_data, dict):
Scalar(v) == [scalar |-> v]
IsDict(field_data) == "scalar" \notin DOMAIN field_data

\* Strings that the code splits are carried as token sequences.
\* s.split('_v')[0]: the tokens before the first "_v".
RECURSIVE SplitV0(_)
SplitV0(tokens) ==
    IF tokens = <<>> \/ Head(tokens) = "_v" THEN <<>>
    ELSE <<Head(tokens)>> \o SplitV0(Tail(tokens))

\* obs.get('data_source', obs.get('observer', 'unknown').split('_v')[0])
DataSourceOf(obs) ==
    Get(obs, "data_source", SplitV0(Get(obs, "observer", <<"unknown">>)))

\* obs.get('observation_id') or obs.get('id')
ObsIdOf(obs) == Or(Get(obs, "observation_id", None), Get(obs, "id", None))

\* FIELD_SCHEMA.keys() of reconcile_field_level, in dict order.
FIELD_SCHEMA == <<"amount", "description">>

RECURSIVE SumSeq(_)
SumSeq(q) == IF q = <<>> THEN 0 ELSE Head(q) + SumSeq(Tail(q))

\* The schema fields that get a field_strategies entry, in schema order:
\* those present on the canonical record whose value is a dict.
StrategyFields(canon) ==
    SelectSeq(FIELD_SCHEMA, LAMBDA f : f \in DOMAIN canon /\ IsDict(canon[f]))

\* field_strategies[field_name] = {...}
FieldStrategy(field_data) ==
    [strategy |-> Get(field_data, "reconciliation_method", "unknown"),
     chosen_obs |-> Get(field_data, "source_observation_id", "unknown"),
     confidence |-> Get(field_data, "confidence", 100),
     alternatives |-> Get(field_data, "alternatives", <<>>)]

\* f"attr_{canonical['id']}_{field_name}"
DecisionStatementId(canon, field_name) == "attr_" \o canon.id \o "_" \o field_name

\* Mutant of OverallConfidence: the mean taken without the emptiness test.
OverallConfidence_NoGuard(confidences) ==
    [sum |-> SumSeq(confidences), count |-> Len(confidences)]

\* sum(confidences) / len(confidences) if confidences else 1.0. Confidences
\* are carried in hundredths; the quotient is kept exact as sum over count.
OverallConfidence(confidences) ==
    IF confidences # <<>>
    THEN [sum |-> SumSeq(confidences), count |-> Len(confidences)]
    ELSE [sum |-> 100, count |-> 1]

\* Mutant of DecisionMethod: "fewer than two" in place of "exactly one".
DecisionMethod_AtMostOne(obs_list) ==
    IF Len(obs_list) <= 1 THEN "single_source" ELSE "automated"

\* Lines 90-94.
DecisionMethod(obs_list) ==
    IF Len(obs_list) = 1 THEN "single_source" ELSE "automated"

\* Mutant of DecisionId: the counter is not part of the id.
DecisionId_Constant(counter) == "recon_decision_" \o Fmt06d(0)

\* f"recon_decision_{decision_counter:06d}"
DecisionId(counter) == "recon_decision_" \o Fmt06d(counter)

\* create_reconciliation_decision(observations, canonical, decision_counter)
create_reconciliation_decision(obs_list, canon, counter) ==
    LET obs_ids == [i \in 1..Len(obs_list) |-> ObsIdOf(obs_list[i])]
        fields == StrategyFields(canon)
        field_strategies == [f \in {fields[i] : i \in 1..Len(fields)} |->
                                FieldStrategy(canon[f])]
        confidences == [i \in 1..Len(fields) |-> field_strategies[fields[i]].confidence]
    IN [decision_id |-> DecisionId(counter),
        timestamp |-> counter,
        observation_ids |-> obs_ids,
        cluster_metadata |->
            [observation_count |-> Len(obs_list),
             data_sources |-> {DataSourceOf(obs_list[i]) : i \in 1..Len(obs_list)},
             reconciliation_timestamp |-> counter],
        field_strategies |-> field_strategies,
        created_statement_ids |->
            [i \in 1..Len(fields) |-> DecisionStatementId(canon, fields[i])],
        confidence |-> OverallConfidence(confidences),
        decision_method |-> DecisionMethod(obs_list),
        created_at |-> counter]

\* ---- the inputs
\* Observations: keyed by observation_id, keyed by id (legacy format), with
\* an empty observation_id beside an id, and with no id at all.
ObsChoices ==
    {[observation_id |-> "obs1", amount |-> -42, data_source |-> <<"bofa">>],
     [id |-> "obs2", amount |-> -42, description |-> "Uber",
      observer |-> <<"wise", "_v", "2">>],
     [observation_id |-> "", id |-> "obs3", amount |-> -7],
     [amount |-> -7, data_source |-> <<"bofa">>]}

ObsLists == UNION {[1..n -> ObsChoices] : n \in 0..MaxObs}

\* Canonical records: reconciled fields, raw scalars, a dict without the
\* metadata keys, no schema field at all, a field outside the schema.
CanonicalChoices ==
    {[id |-> "txn1", amount |-> Scalar(-42)],
     [id |-> "txn1",
      amount |-> [value |-> -42, reconciliation_method |-> "first_source",
                  source_observation_id |-> "obs1", confidence |-> 90,
                  alternatives |-> <<[value |-> -41, observation_id |-> "obs2"]>>],
      description |-> [value |-> "Uber", reconciliation_method |-> "most_complete",
                       source_observation_id |-> "obs2", confidence |-> 75,
                       alternatives |-> <<>>]],
     [id |-> "txn2", amount |-> [value |-> -7]],
     [id |-> "txn2"],
     [id |-> "txn3", amount |-> Scalar(-7),
      description |-> [value |-> "Lyft", reconciliation_method |-> "longest",
                       source_observation_id |-> "obs3", confidence |-> 80,
                       alternatives |-> <<>>],
      merchant |-> [value |-> "lyft", confidence |-> 10]]}

CounterChoices == {0, 7, 123456}

\* ---- one call of create_reconciliation_decision
DecisionCall ==
    /\ dec_pc = "idle"
    /\ dec_pc' = "called"
    /\ UNCHANGED <<transactions, overlap_groups, obs_by_id, processed_obs_ids,
                   canonical_transactions, reconciliation_decisions, decision_counter,
                   group_ix, obs_ix, recon_pc, observations, canonical, decision>>
    /\ UNCHANGED outsideRecon

DecisionReturn ==
    /\ dec_pc = "called"
    /\ dec_pc' = "returned"
    /\ decision' = create_reconciliation_decision(observations, canonical, decision_counter)
    /\ UNCHANGED <<transactions, overlap_groups, obs_by_id, processed_obs_ids,
                   canonical_transactions, reconciliation_decisions, decision_counter,
                   group_ix, obs_ix, recon_pc, observations, canonical>>
    /\ UNCHANGED outsideRecon

DecisionInit ==
    /\ observations \in ObsLists
    /\ canonical \in CanonicalChoices
    /\ decision_counter \in CounterChoices
    /\ decision = <<>>
    /\ dec_pc = "idle"
    /\ transactions = <<>>
    /\ overlap_groups = <<>>
    /\ obs_by_id = <<>>
    /\ processed_obs_ids = {}
    /\ canonical_transactions = <<>>
    /\ reconciliation_decisions = <<>>
    /\ group_ix = 0
    /\ obs_ix = 0
    /\ recon_pc = "idle"
    /\ LedgerIdle
    /\ MergeIdle
    /\ MigrateIdle
    /\ JobIdle
    /\ PipeIdle

DecisionNext ==
    \/ DecisionCall
    \/ DecisionReturn

SpecDecision == DecisionInit /\ [][DecisionNext]_vars

\* ================================================================== reconcile main
\* reconcile_observations of reconcile_field_level: a pure function from a
\* non-empty list of observations to a new canonical record. The record is
\* named after the first observation; a schema field some observation
\* carries is a raw scalar for one observation and a dict with the
\* reconciliation metadata for several.
reconcile_observations(obs_list) ==
    LET carried == SelectSeq(FIELD_SCHEMA,
                      LAMBDA f : \E i \in 1..Len(obs_list) : f \in DOMAIN obs_list[i])
        Holders(f) == {i \in 1..Len(obs_list) : f \in DOMAIN obs_list[i]}
        FirstOf(f) == CHOOSE i \in Holders(f) : \A j \in Holders(f) : i <= j
        FieldOf(f) ==
            IF Len(obs_list) = 1 THEN Scalar(obs_list[1][f])
            ELSE [value |-> obs_list[FirstOf(f)][f],
                  reconciliation_method |-> "first_source",
                  source_observation_id |-> ObsIdOf(obs_list[FirstOf(f)]),
                  confidence |-> 90,
                  alternatives |-> <<>>]
        base == [id |-> "txn_" \o ObsIdOf(obs_list[1]),
                 reconciliation_metadata |->
                    [data_sources |-> {DataSourceOf(obs_list[i]) : i \in 1..Len(obs_list)}]]
    IN [k \in DOMAIN base \cup {carried[i] : i \in 1..Len(carried)} |->
            IF k \in DOMAIN base THEN base[k] ELSE FieldOf(k)]

\* Lines 186-189: the observations of a group that the index knows.
GroupObservations(index, group) ==
    LET known == SelectSeq(group.observation_ids, LAMBDA id : id \in DOMAIN index)
    IN [i \in 1..Len(known) |-> index[known[i]]]

\* Lines 165-169: the last observation with a given truthy id is indexed.
IndexOf(obs_list) ==
    LET ids == {ObsIdOf(obs_list[i]) : i \in 1..Len(obs_list)} \ {None, ""}
        Last(id) == CHOOSE i \in 1..Len(obs_list) :
                        /\ ObsIdOf(obs_list[i]) = id
                        /\ \A j \in 1..Len(obs_list) : ObsIdOf(obs_list[j]) = id => j <= i
    IN [id \in ids |-> obs_list[Last(id)]]

\* Lines 164-178.
ReconStart ==
    /\ recon_pc = "idle"
    /\ recon_pc' = "run"
    /\ obs_by_id' = IndexOf(transactions)
    /\ processed_obs_ids' = {}
    /\ canonical_transactions' = <<>>
    /\ reconciliation_decisions' = <<>>
    /\ decision_counter' = 0
    /\ UNCHANGED <<transactions, overlap_groups, group_ix, obs_ix,
                   observations, canonical, decision, dec_pc>>
    /\ UNCHANGED outsideRecon

\* Lines 193-207 and 222-236: reconcile, build the decision, link, append.
Emit(obs_list) ==
    LET canon == reconcile_observations(obs_list)
        d == create_reconciliation_decision(obs_list, canon, decision_counter)
    IN /\ decision_counter' = decision_counter + 1
       /\ canonical_transactions' = Append(canonical_transactions,
                                        Put(canon, "reconciliation_decision_id", d.decision_id))
       /\ reconciliation_decisions' = Append(reconciliation_decisions, d)

\* One iteration of `for group in overlap_groups`.
ReconGroup ==
    /\ recon_pc = "run"
    /\ group_ix < Len(overlap_groups)
    /\ LET group == overlap_groups[group_ix + 1]
           group_observations == GroupObservations(obs_by_id, group)
       IN /\ processed_obs_ids' = processed_obs_ids \cup
                {id \in DOMAIN obs_by_id :
                    \E i \in 1..Len(group.observation_ids) : group.observation_ids[i] = id}
          /\ IF group_observations # <<>>
             THEN Emit(group_observations)
             ELSE UNCHANGED <<canonical_transactions, reconciliation_decisions,
                              decision_counter>>
    /\ group_ix' = group_ix + 1
    /\ UNCHANGED <<transactions, overlap_groups, obs_by_id, obs_ix, recon_pc,
                   observations, canonical, decision, dec_pc>>
    /\ UNCHANGED outsideRecon

\* One iteration of `for obs in transactions` (single-source observations).
ReconSingle ==
    /\ recon_pc = "run"
    /\ group_ix = Len(overlap_groups)
    /\ obs_ix < Len(transactions)
    /\ LET obs == transactions[obs_ix + 1]
       IN IF ObsIdOf(obs) \notin processed_obs_ids
          THEN Emit(<<obs>>)
          ELSE UNCHANGED <<canonical_transactions, reconciliation_decisions,
                           decision_counter>>
    /\ obs_ix' = obs_ix + 1
    /\ UNCHANGED <<transactions, overlap_groups, obs_by_id, processed_obs_ids,
                   group_ix, recon_pc, observations, canonical, decision, dec_pc>>
    /\ UNCHANGED outsideRecon

\* Lines 244-273: the two lists are written out as they stand;
\* canonical_ledger_with_decisions.json exists from here on (created or
\* overwritten at lines 260-261).
ReconSave ==
    /\ recon_pc = "run"
    /\ group_ix = Len(overlap_groups)
    /\ obs_ix = Len(transactions)
    /\ recon_pc' = "done"
    /\ data_files' = data_files \cup {DecisionsLedgerFile}
    /\ UNCHANGED <<transactions, overlap_groups, obs_by_id, processed_obs_ids,
                   canonical_transactions, reconciliation_decisions, decision_counter,
                   group_ix, obs_ix, observations, canonical, decision, dec_pc>>
    /\ UNCHANGED <<pipe_pc, returncodes, printed, exit_status>>
    /\ UNCHANGED <<ledgerVars, mergeVars, migVars, jobVars, rerunVars>>

\* Overlap groups: over loaded ids, sharing an id, naming an unknown id, empty.
GroupChoices ==
    {[observation_ids |-> ids] :
        ids \in {<<"obs1", "obs2">>, <<"obs2", "obs3">>, <<"obs3", "obs9">>, <<>>}}

GroupLists == UNION {[1..n -> GroupChoices] : n \in 0..MaxGroups}

ReconInit ==
    /\ transactions \in ObsLists
    /\ overlap_groups \in GroupLists
    /\ obs_by_id = <<>>
    /\ processed_obs_ids = {}
    /\ canonical_transactions = <<>>
    /\ reconciliation_decisions = <<>>
    /\ decision_counter = 0
    /\ group_ix = 0
    /\ obs_ix = 0
    /\ recon_pc = "idle"
    /\ observations = <<>>
    /\ canonical = <<>>
    /\ decision = <<>>
    /\ dec_pc = "idle"
    /\ LedgerIdle
    /\ MergeIdle
    /\ MigrateIdle
    /\ JobIdle
    /\ pipe_pc = "idle"
    /\ returncodes = <<>>
    /\ printed = {}
    /\ exit_status = None
    /\ data_files = {ObservationsFile}
    /\ first_run = <<>>

ReconNext ==
    \/ ReconStart
    \/ ReconGroup
    \/ ReconSingle
    \/ ReconSave

SpecRecon == ReconInit /\ [][ReconNext]_vars

\* ================================================================== migration
\* datetime.now().strftime("%Y%m%d%H%M%S%f") at the clock reading t: the
\* date and the time of day are fixed, t is the microsecond field.
Strftime(t) == "20250101120000" \o Fmt06d(t)

\* datetime.now().isoformat() at the clock reading t, as a scalar field
\* value; isoformat leaves out a microsecond field of 0.
Isoformat(t) ==
    Scalar(IF t = 0 THEN "2025-01-01T12:00:00"
           ELSE "2025-01-01T12:00:00." \o Fmt06d(t))

\* Mutant of generate_statement_id: the timestamp left out of the id.
generate_statement_id_NoTimestamp(prefix, subject_id, predicate, t) ==
    prefix \o "_" \o subject_id \o "_" \o predicate

\* generate_statement_id(prefix, subject_id, predicate), the clock reading t.
generate_statement_id(prefix, subject_id, predicate, t) ==
    prefix \o "_" \o subject_id \o "_" \o predicate \o "_" \o Strftime(t)

\* Mutant of create_temporal_qualifiers: the validity interval is closed.
create_temporal_qualifiers_Closed(transaction, t) ==
    LET provenance_data == Get(transaction, "provenance", <<>>)
    IN [valid_from |-> Get(transaction, "date", Isoformat(t)),
        valid_to |-> "2025-12-31T00:00:00",
        observed_at |-> Get(provenance_data, "created_at", Isoformat(t)),
        superseded_at |-> None]

\* create_temporal_qualifiers(transaction) at the clock reading t
create_temporal_qualifiers(transaction, t) ==
    LET provenance_data == Get(transaction, "provenance", <<>>)
    IN [valid_from |-> Get(transaction, "date", Isoformat(t)),
        valid_to |-> None,
        observed_at |-> Get(provenance_data, "created_at", Isoformat(t)),
        superseded_at |-> None]

\* Lines 64-68: confidence_data is a dict with "overall", a number, or
\* missing; numbers are carried in hundredths.
ProvenanceConfidence(transaction) ==
    LET confidence_data == Get(transaction, "confidence", <<>>)
    IN IF IsDict(confidence_data) THEN Get(confidence_data, "overall", 100)
       ELSE IF confidence_data.scalar # 0 THEN confidence_data.scalar
       ELSE 100

\* create_provenance(transaction) at the clock reading t
create_provenance(transaction, t) ==
    LET provenance_data == Get(transaction, "provenance", <<>>)
    IN [observation_ids |-> Get(provenance_data, "observation_ids", <<>>),
        source_method |-> Get(provenance_data, "source_method", "unknown"),
        observer |-> Get(provenance_data, "observer", "unknown"),
        created_at |-> Get(provenance_data, "created_at", Isoformat(t)),
        confidence |-> ProvenanceConfidence(transaction),
        source_document |-> Get(provenance_data, "source_document", None)]

\* EventNode(event_id=..., ...) of lines 99-109
EventNode(transaction, event_id, t) ==
    [event_id |-> event_id,
     event_type |-> "finance_transaction",
     happened_at |-> Get(transaction, "date", Scalar("")),
     status |-> "verified",
     snapshot |-> [amount |-> Get(transaction, "amount", Scalar(None)),
                   currency |-> Get(transaction, "currency", Scalar("USD")),
                   description |-> Get(transaction, "description", Scalar(None))],
     created_at |-> Isoformat(t),
     updated_at |-> Isoformat(t)]

\* EntityNode(entity_id=..., ...) of lines 204-209
EntityNode(merchant_id, merchant_name, t) ==
    [entity_id |-> merchant_id,
     type |-> "Merchant",
     status |-> "verified",
     aliases |-> <<merchant_name>>,
     external_ids |-> <<>>,
     created_at |-> Isoformat(t),
     updated_at |-> Isoformat(t)]

\* AttributeFact(...): the two reconciliation fields keep their defaults.
AttributeFact(statement_id, subject_id, predicate, object, temporal, provenance) ==
    [statement_id |-> statement_id,
     subject_id |-> subject_id,
     predicate |-> predicate,
     object |-> object,
     temporal |-> temporal,
     provenance |-> provenance,
     reconciliation_decision_id |-> None,
     rejected_alternatives |-> <<>>]

\* RelationshipFact(...)
RelationshipFact(statement_id, subject_id, predicate, target_id, temporal, provenance) ==
    [statement_id |-> statement_id,
     subject_id |-> subject_id,
     predicate |-> predicate,
     target_id |-> target_id,
     temporal |-> temporal,
     provenance |-> provenance,
     reconciliation_decision_id |-> None,
     rejected_alternatives |-> <<>>]

\* The predicates of lines 118-192, in the order of the code.
AttributePredicates == <<"amount", "description", "date", "currency", "category">>

PresentPredicates(transaction) ==
    SelectSeq(AttributePredicates, LAMBDA f : f \in DOMAIN transaction)

\* float(transaction["amount"]) on a number
Float(field_data) == Scalar(field_data.scalar)

\* The object of the attribute fact of one predicate.
ObjectOf(transaction, predicate) ==
    CASE predicate = "amount" ->
            [value |-> Float(transaction["amount"]), type |-> "number",
             unit |-> Get(transaction, "currency", Scalar("USD"))]
      [] predicate = "date" -> [value |-> transaction[predicate], type |-> "date"]
      [] OTHER -> [value |-> transaction[predicate], type |-> "string"]

\* float() of a dict raises TypeError (line 125).
RaisesOnAmount(transaction) ==
    "amount" \in DOMAIN transaction /\ IsDict(transaction["amount"])

\* A dict is unhashable: `merchant_name not in entity_registry` raises
\* TypeError (line 199).
RaisesOnMerchant(transaction) ==
    "merchant" \in DOMAIN transaction /\ IsDict(transaction["merchant"])

\* The number of generate_statement_id calls one transaction makes.
StatementCalls(transaction, registry) ==
    IF RaisesOnAmount(transaction) THEN 1
    ELSE Len(PresentPredicates(transaction))
         + (IF "merchant" \notin DOMAIN transaction \/ RaisesOnMerchant(transaction)
            THEN 0
            ELSE IF transaction["merchant"].scalar \in DOMAIN registry THEN 1 ELSE 2)

\* The clock reading of the k-th generate_statement_id call of a
\* transaction that starts at reading t0: ticks[i] is 1 when the clock
\* advanced before the i-th call and 0 when it did not.
ClockAt(t0, ticks, k) == t0 + SumSeq(SubSeq(ticks, 1, k))

\* migrate_transaction_to_schema(transaction, schema, entity_registry): the
\* store and the registry it leaves, and whether an exception left it.
\* schema is [nodes, attribute_facts, relationship_facts]; t0 is the clock
\* reading at entry. The clock is taken to advance only right before a
\* generate_statement_id call, so every other datetime.now() reads the
\* value the last such call saw.
migrate_transaction_to_schema(transaction, schema, registry, t0, ticks) ==
    LET event_id == "evt_" \o transaction["id"]
        temporal == create_temporal_qualifiers(transaction, t0)
        provenance == create_provenance(transaction, t0)
        present == PresentPredicates(transaction)
        n == Len(present)
        attrs == [k \in 1..n |->
                    AttributeFact(
                        generate_statement_id("attr", event_id, present[k],
                                              ClockAt(t0, ticks, k)),
                        event_id, present[k], ObjectOf(transaction, present[k]),
                        temporal, provenance)]
        with_event == [schema EXCEPT
                          !.nodes = Put(@, event_id, EventNode(transaction, event_id, t0))]
        with_attrs == [with_event EXCEPT !.attribute_facts = @ \o attrs]
    IN IF RaisesOnAmount(transaction)
       THEN [schema |-> with_event, registry |-> registry, raised |-> TRUE]
       ELSE IF "merchant" \notin DOMAIN transaction
       THEN [schema |-> with_attrs, registry |-> registry, raised |-> FALSE]
       ELSE IF RaisesOnMerchant(transaction)
       THEN [schema |-> with_attrs, registry |-> registry, raised |-> TRUE]
       ELSE LET merchant_name == transaction["merchant"].scalar
                known == merchant_name \in DOMAIN registry
                new_id == "ent_merchant_" \o ToString(Cardinality(DOMAIN registry))
                registry1 == IF known THEN registry
                             ELSE Put(registry, merchant_name, new_id)
                name_fact ==
                    AttributeFact(
                        generate_statement_id("attr", new_id, "canonical_name",
                                              ClockAt(t0, ticks, n + 1)),
                        new_id, "canonical_name",
                        [value |-> transaction["merchant"], type |-> "string"],
                        temporal, provenance)
                with_entity ==
                    IF known THEN with_attrs
                    ELSE [with_attrs EXCEPT
                             !.nodes = Put(@, new_id, EntityNode(new_id, merchant_name,
                                                         ClockAt(t0, ticks, n))),
                             !.attribute_facts = Append(@, name_fact)]
                rel == RelationshipFact(
                          generate_statement_id("rel", event_id, "merchant",
                              ClockAt(t0, ticks, IF known THEN n + 1 ELSE n + 2)),
                          event_id, "merchant", registry1[merchant_name],
                          temporal, provenance)
            IN [schema |-> [with_entity EXCEPT !.relationship_facts = Append(@, rel)],
                registry |-> registry1, raised |-> FALSE]

\* ---- the inputs
MaxTx == 2

\* Transactions of the ledger file.
\* With a merchant, a confidence object and provenance.
TxMerchant ==
    [id |-> "txn_obs1", amount |-> Scalar(-42), merchant |-> Scalar("uber"),
     confidence |-> [overall |-> 95],
     provenance |-> [observation_ids |-> <<"obs1">>, source_method |-> "reconciled",
                     observer |-> "bofa"]]

\* With the id of TxMerchant and an amount only.
TxAmountOnly == [id |-> "txn_obs1", amount |-> Scalar(-42)]

\* With a reconciled amount: a dict where float() expects a number.
TxReconciledAmount ==
    [id |-> "txn_obs2",
     amount |-> [value |-> -7, reconciliation_method |-> "first_source",
                 source_observation_id |-> "obs2", confidence |-> 90,
                 alternatives |-> <<>>],
     description |-> Scalar("Lyft")]

\* With a numeric confidence of 1.5 and the merchant of TxMerchant.
TxOverConfident ==
    [id |-> "txn_obs3", description |-> Scalar("Uber"), merchant |-> Scalar("uber"),
     confidence |-> Scalar(150)]

\* With a reconciled description and a date.
TxReconciledDescription ==
    [id |-> "txn_obs1", date |-> Scalar("2025-01-03"),
     description |-> [value |-> "Uber", reconciliation_method |-> "most_complete",
                      source_observation_id |-> "obs2", confidence |-> 75,
                      alternatives |-> <<>>]]

\* With a second merchant name.
TxOtherMerchant == [id |-> "txn_obs4", amount |-> Scalar(-7), merchant |-> Scalar("lyft")]

MigrateChoices ==
    {TxMerchant, TxAmountOnly, TxReconciledAmount, TxOverConfident,
     TxReconciledDescription, TxOtherMerchant}

MigrateLists == UNION {[1..n -> MigrateChoices] : n \in 0..MaxTx}

\* Lines 250-259: load the transactions, create the schema and the registry.
MigrateLoad ==
    /\ mig_pc = "idle"
    /\ mig_pc' = "loop"
    /\ nodes' = <<>>
    /\ attribute_facts' = <<>>
    /\ relationship_facts' = <<>>
    /\ entity_registry' = <<>>
    /\ mig_ix' = 0
    /\ UNCHANGED <<canonical_data, clock, get_args, get_result,
                   schema_decisions>>
    /\ UNCHANGED outsideMigrate

\* One iteration of `for i, transaction in enumerate(transactions, 1)`. The
\* clock may or may not advance before each generate_statement_id call.
MigrateTransaction ==
    /\ mig_pc = "loop"
    /\ mig_ix < Len(canonical_data)
    /\ LET transaction == canonical_data[mig_ix + 1]
       IN \E ticks \in [1..StatementCalls(transaction, entity_registry) -> {0, 1}] :
            LET r == migrate_transaction_to_schema(transaction,
                        [nodes |-> nodes, attribute_facts |-> attribute_facts,
                         relationship_facts |-> relationship_facts],
                        entity_registry, clock, ticks)
            IN /\ nodes' = r.schema.nodes
               /\ attribute_facts' = r.schema.attribute_facts
               /\ relationship_facts' = r.schema.relationship_facts
               /\ entity_registry' = r.registry
               /\ clock' = ClockAt(clock, ticks, Len(ticks))
               /\ IF r.raised
                  THEN mig_pc' = "raised" /\ UNCHANGED mig_ix
                  ELSE mig_ix' = mig_ix + 1 /\ UNCHANGED mig_pc
    /\ UNCHANGED <<canonical_data, get_args, get_result,
                   schema_decisions>>
    /\ UNCHANGED outsideMigrate

\* Lines 279-300: export the schema and write the output file.
MigrateSave ==
    /\ mig_pc = "loop"
    /\ mig_ix = Len(canonical_data)
    /\ mig_pc' = "done"
    /\ UNCHANGED <<canonical_data, nodes, attribute_facts, relationship_facts,
                   entity_registry, mig_ix, clock, get_args, get_result,
                   schema_decisions>>
    /\ UNCHANGED outsideMigrate

MigrateInit ==
    /\ canonical_data \in MigrateLists
    /\ nodes = <<>>
    /\ attribute_facts = <<>>
    /\ relationship_facts = <<>>
    /\ entity_registry = <<>>
    /\ mig_ix = 0
    /\ mig_pc = "idle"
    /\ clock = 0
    /\ get_args = <<>>
    /\ get_result = <<>>
    /\ schema_decisions = <<>>
    /\ LedgerIdle
    /\ MergeIdle
    /\ ReconIdle
    /\ JobIdle
    /\ pipe_pc = "idle"
    /\ returncodes = <<>>
    /\ printed = {}
    /\ exit_status = None
    /\ data_files = {LedgerV6File}
    /\ first_run = <<>>

MigrateNext ==
    \/ MigrateLoad
    \/ MigrateTransaction
    \/ MigrateSave

SpecMigrate == MigrateInit /\ [][MigrateNext]_vars

\* ================================================================== stages 3 and 4
\* run_integrated_pipeline runs reconcile_with_decisions and then
\* migrate_to_schema. The reconciliation writes
\* canonical_ledger_with_decisions.json and reconciliation_decisions.json;
\* the migration reads canonical_ledger_v6.json, which no step of the
\* pipeline writes, so its transactions are an input of their own.
PipelineLedgers ==
    {<<TxReconciledDescription>>,
     <<TxMerchant, TxReconciledDescription>>,
     <<TxAmountOnly>>}

PipelineInit ==
    /\ transactions \in ObsLists
    /\ overlap_groups \in GroupLists
    /\ obs_by_id = <<>>
    /\ processed_obs_ids = {}
    /\ canonical_transactions = <<>>
    /\ reconciliation_decisions = <<>>
    /\ decision_counter = 0
    /\ group_ix = 0
    /\ obs_ix = 0
    /\ recon_pc = "idle"
    /\ observations = <<>>
    /\ canonical = <<>>
    /\ decision = <<>>
    /\ dec_pc = "idle"
    /\ canonical_data \in PipelineLedgers
    /\ nodes = <<>>
    /\ attribute_facts = <<>>
    /\ relationship_facts = <<>>
    /\ entity_registry = <<>>
    /\ mig_ix = 0
    /\ mig_pc = "idle"
    /\ clock = 0
    /\ get_args = <<>>
    /\ get_result = <<>>
    /\ schema_decisions = <<>>
    /\ LedgerIdle
    /\ MergeIdle
    /\ JobIdle
    /\ pipe_pc = "idle"
    /\ returncodes = <<>>
    /\ printed = {}
    /\ exit_status = None
    /\ data_files = {ObservationsFile, LedgerV6File}
    /\ first_run = <<>>

\* Stage 4 starts when stage 3 has ended.
PipelineNext ==
    \/ ReconNext
    \/ (recon_pc = "done" /\ MigrateNext)

SpecReconMigrate == PipelineInit /\ [][PipelineNext]_vars

\* ---- run_integrated_pipeline.main
\* The headline messages of main.
MergeFailedWarning == "Entity merge failed or no entities to merge (continuing...)"
ReconFailedMessage == "Reconciliation failed!"
LedgerNotFoundMessage == "Canonical ledger not found"
CompleteMessage == "INTEGRATED PIPELINE COMPLETE!"

\* run_command (lines 35-53): False when the command returned non-zero.
run_command(returncode) == returncode = 0

\* The status of the process when main returns (lines 200-201: main() is
\* called and its result dropped; no sys.exit anywhere in the script).
StatusOnReturn == 0

\* Lines 56-85: the banner, then stage 2.5 runs the merge script.
PipeStart ==
    /\ pipe_pc = "idle"
    /\ pipe_pc' = "stage25"
    /\ UNCHANGED <<returncodes, printed, exit_status, data_files>>
    /\ UNCHANGED <<ledgerVars, mergeVars, reconVars, migVars, jobVars, rerunVars>>

\* Lines 86-95: the merge command is started. The script imports
\* hybrid_entity_resolution (its lines 22-28), a module that src/ does not
\* hold: where it is not installed the import fails, the command returns 1
\* and has written nothing. With no entities file the script exits with
\* status 1 (its lines 264-271). Otherwise run_merge_with_lineage runs.
PipeStage25 ==
    /\ pipe_pc = "stage25"
    /\ \E imported \in BOOLEAN :
          IF imported /\ entities_file # <<>>
          THEN /\ pipe_pc' = "stage25_run"
               /\ UNCHANGED <<returncodes, printed>>
          ELSE LET success == run_command(1)
               IN /\ returncodes' = Put(returncodes, "merge", 1)
                  /\ printed' = IF ~success THEN printed \cup {MergeFailedWarning}
                                ELSE printed
                  /\ pipe_pc' = "stage3"
    /\ UNCHANGED <<exit_status, data_files>>
    /\ UNCHANGED <<ledgerVars, mergeVars, reconVars, migVars, jobVars, rerunVars>>

\* Lines 95-98: the merge command has ended, with status 0 when
\* run_merge_with_lineage returned and 1 when the KeyError of the merge
\* loop left the script; on failure a warning and nothing else.
PipeStage25Return ==
    /\ pipe_pc = "stage25_run"
    /\ job_pc = "returned" \/ merge_pc = "raised"
    /\ LET rc == IF merge_pc = "raised" THEN 1 ELSE 0
           success == run_command(rc)
       IN /\ returncodes' = Put(returncodes, "merge", rc)
          /\ printed' = IF ~success THEN printed \cup {MergeFailedWarning} ELSE printed
    /\ pipe_pc' = "stage3"
    /\ UNCHANGED <<exit_status, data_files>>
    /\ UNCHANGED <<ledgerVars, mergeVars, reconVars, migVars, jobVars, rerunVars>>

\* Lines 100-111: the reconciliation command is started. The script imports
\* reconcile_field_level (its lines 21-25), a module that src/ does not
\* hold: where it is not installed the import fails and the command returns
\* 1, and main prints a message and executes `return`. With no observation
\* file the script's main returns at its line 126: status 0, nothing
\* written. Otherwise the reconciliation runs.
PipeStage3 ==
    /\ pipe_pc = "stage3"
    /\ \E imported \in BOOLEAN :
          IF ~imported
          THEN LET success == run_command(1)
               IN /\ returncodes' = Put(returncodes, "reconcile", 1)
                  /\ IF ~success
                     THEN /\ printed' = printed \cup {ReconFailedMessage}
                          /\ pipe_pc' = "exited"
                          /\ exit_status' = StatusOnReturn
                     ELSE /\ pipe_pc' = "stage4_check"
                          /\ UNCHANGED <<printed, exit_status>>
          ELSE IF ObservationsFile \notin data_files
          THEN /\ returncodes' = Put(returncodes, "reconcile", 0)
               /\ pipe_pc' = "stage4_check"
               /\ UNCHANGED <<printed, exit_status>>
          ELSE /\ pipe_pc' = "stage3_run"
               /\ UNCHANGED <<returncodes, printed, exit_status>>
    /\ UNCHANGED data_files
    /\ UNCHANGED <<ledgerVars, mergeVars, reconVars, migVars, jobVars, rerunVars>>

\* Lines 107-111: the reconciliation command has ended with status 0.
PipeStage3Return ==
    /\ pipe_pc = "stage3_run"
    /\ recon_pc = "done"
    /\ returncodes' = Put(returncodes, "reconcile", 0)
    /\ pipe_pc' = "stage4_check"
    /\ UNCHANGED <<printed, exit_status, data_files>>
    /\ UNCHANGED <<ledgerVars, mergeVars, reconVars, migVars, jobVars, rerunVars>>

\* Lines 113-123: the ledger file of stage 3 must exist, else a message and
\* `return`.
PipeStage4Check ==
    /\ pipe_pc = "stage4_check"
    /\ LET exists == DecisionsLedgerFile \in data_files
       IN IF ~exists
          THEN /\ printed' = printed \cup {LedgerNotFoundMessage}
               /\ pipe_pc' = "exited"
               /\ exit_status' = StatusOnReturn
          ELSE /\ pipe_pc' = "stage4"
               /\ UNCHANGED <<printed, exit_status>>
    /\ UNCHANGED <<returncodes, data_files>>
    /\ UNCHANGED <<ledgerVars, mergeVars, reconVars, migVars, jobVars, rerunVars>>

\* Lines 125-197: the migration command has ended. It returns 1 when
\* open() found no canonical_ledger_v6.json (migrate_to_schema line 250) or
\* an exception left the migration loop, else 0; `success` is assigned and
\* never read, the summary is printed and main returns.
PipeStage4Return ==
    /\ pipe_pc = "stage4"
    /\ \/ mig_pc \in {"done", "raised"}
       \/ LedgerV6File \notin data_files
    /\ LET rc == IF mig_pc = "done" THEN 0 ELSE 1
           success == run_command(rc)
       IN returncodes' = Put(returncodes, "migrate", rc)
    /\ printed' = printed \cup {CompleteMessage}
    /\ pipe_pc' = "exited"
    /\ exit_status' = StatusOnReturn
    /\ UNCHANGED data_files
    /\ UNCHANGED <<ledgerVars, mergeVars, reconVars, migVars, jobVars, rerunVars>>

\* ---- the data directory the pipeline is started on
\* The entities file, when there is one: the full records of A.
IntegratedEntityFiles ==
    {[entities |-> e] : e \in {c \in EntityCollections : "aliases" \in DOMAIN c["A"]}}

\* The pairs _find_duplicates returns: none, one pair, and one pair followed
\* by a pair that names an id the file does not hold.
IntegratedDuplicates ==
    {<<>>,
     <<<<"A", "B", PairSimilarity("A", "B")>>>>,
     <<<<"A", "B", PairSimilarity("A", "B")>>,
       <<"A", AbsentId, PairSimilarity("A", AbsentId)>>>>}

\* The observation of ObsChoices with a given id.
ObsNamed(id) == CHOOSE o \in ObsChoices : ObsIdOf(o) = id

IntegratedObservations ==
    {<<>>, <<ObsNamed("obs1")>>, <<ObsNamed("obs1"), ObsNamed("obs2")>>}

IntegratedGroups == {<<>>, <<[observation_ids |-> <<"obs1", "obs2">>]>>}

\* canonical_ledger_v6.json: ledgers the migration completes, and one on
\* which it raises.
IntegratedLedgers ==
    PipelineLedgers \cup {<<TxMerchant, TxOtherMerchant>>, <<TxReconciledAmount>>}

\* No stage has run. A file that is absent has no content.
IntegratedInit ==
    /\ data_files \in SUBSET DataFiles
    /\ entities_file \in IntegratedEntityFiles \cup {<<>>}
    /\ duplicates \in IF entities_file = <<>> THEN {<<>>} ELSE IntegratedDuplicates
    /\ transactions \in IF ObservationsFile \in data_files
                        THEN IntegratedObservations ELSE {<<>>}
    /\ overlap_groups \in IF ObservationsFile \in data_files
                          THEN IntegratedGroups ELSE {<<>>}
    /\ canonical_data \in IF LedgerV6File \in data_files
                          THEN IntegratedLedgers ELSE {<<>>}
    /\ backup_file = <<>>
    /\ lineage_file = <<>>
    /\ merge_report = <<>>
    /\ job_pc = "idle"
    /\ entities = <<>>
    /\ merged_entities = <<>>
    /\ merge_log = <<>>
    /\ merged_ids = {}
    /\ entity_lineages = <<>>
    /\ lineage_counter = 0
    /\ pair_ix = 0
    /\ merge_pc = "idle"
    /\ obs_by_id = <<>>
    /\ processed_obs_ids = {}
    /\ canonical_transactions = <<>>
    /\ reconciliation_decisions = <<>>
    /\ decision_counter = 0
    /\ group_ix = 0
    /\ obs_ix = 0
    /\ recon_pc = "idle"
    /\ observations = <<>>
    /\ canonical = <<>>
    /\ decision = <<>>
    /\ dec_pc = "idle"
    /\ nodes = <<>>
    /\ attribute_facts = <<>>
    /\ relationship_facts = <<>>
    /\ entity_registry = <<>>
    /\ mig_ix = 0
    /\ mig_pc = "idle"
    /\ clock = 0
    /\ get_args = <<>>
    /\ get_result = <<>>
    /\ schema_decisions = <<>>
    /\ LedgerIdle
    /\ pipe_pc = "idle"
    /\ returncodes = <<>>
    /\ printed = {}
    /\ exit_status = None
    /\ first_run = <<>>

\* Each command runs as a subprocess of its stage: the merge job in stage
\* 2.5, the reconciliation in stage 3, the migration in stage 4.
IntegratedNext ==
    \/ PipeStart
    \/ PipeStage25
    \/ (pipe_pc = "stage25_run" /\ JobNext)
    \/ PipeStage25Return
    \/ PipeStage3
    \/ (pipe_pc = "stage3_run" /\ ReconNext)
    \/ PipeStage3Return
    \/ PipeStage4Check
    \/ (pipe_pc = "stage4" /\ LedgerV6File \in data_files /\ MigrateNext)
    \/ PipeStage4Return

SpecIntegrated == IntegratedInit /\ [][IntegratedNext]_vars

\* ---- the statement store: appends and reads (schema.py)
MaxFacts == 2

\* `if predicate:` of lines 508 and 515 is Truthy: None and "" are both falsy.
\* StorageSchema.get_attributes (lines 505-510) over self.attribute_facts
get_attributes(facts_all, subject_id, predicate) ==
    LET facts == SelectSeq(facts_all, LAMBDA f : f.subject_id = subject_id)
    IN IF Truthy(predicate)
       THEN SelectSeq(facts, LAMBDA f : f.predicate = predicate)
       ELSE facts

\* StorageSchema.get_relationships (lines 512-517) over self.relationship_facts
get_relationships(facts_all, subject_id, predicate) ==
    LET facts == SelectSeq(facts_all, LAMBDA f : f.subject_id = subject_id)
    IN IF Truthy(predicate)
       THEN SelectSeq(facts, LAMBDA f : f.predicate = predicate)
       ELSE facts

StoreSubjects == {"evt_t1", "evt_t2"}

\* The attribute facts and relationship facts the callers add.
StoreAttributeFacts ==
    {AttributeFact("attr_" \o s \o "_" \o p, s, p, Scalar("v"),
                   create_temporal_qualifiers(<<>>, 0), create_provenance(<<>>, 0)) :
        s \in StoreSubjects, p \in {"amount", "description"}}

StoreRelationshipFacts ==
    {RelationshipFact("rel_" \o sp[1] \o "_" \o sp[2], sp[1], sp[2], "ent_merchant_0",
                      create_temporal_qualifiers(<<>>, 0), create_provenance(<<>>, 0)) :
        sp \in {<<"evt_t1", "merchant">>, <<"evt_t1", "part_of">>,
                <<"evt_t2", "merchant">>}}

\* The arguments of the reads: a subject the store may not know, and a
\* predicate that is omitted (None), empty, or a name.
ReadSubjects == StoreSubjects \cup {"evt_unknown"}
ReadPredicates == {None, "", "amount", "description", "merchant", "part_of"}

\* StorageSchema.add_attribute_fact (lines 453-455)
add_attribute_fact(fact) ==
    /\ Len(attribute_facts) < MaxFacts
    /\ attribute_facts' = Append(attribute_facts, fact)
    /\ UNCHANGED <<canonical_data, nodes, relationship_facts, entity_registry,
                   mig_ix, mig_pc, clock, get_args, get_result,
                   schema_decisions>>
    /\ UNCHANGED outsideMigrate

\* StorageSchema.add_relationship_fact (lines 457-459)
add_relationship_fact(fact) ==
    /\ Len(relationship_facts) < MaxFacts
    /\ relationship_facts' = Append(relationship_facts, fact)
    /\ UNCHANGED <<canonical_data, nodes, attribute_facts, entity_registry,
                   mig_ix, mig_pc, clock, get_args, get_result,
                   schema_decisions>>
    /\ UNCHANGED outsideMigrate

\* A call of get_attributes and the list it returns.
GetAttributesCall(subject_id, predicate) ==
    /\ get_args' = <<"get_attributes", subject_id, predicate>>
    /\ get_result' = get_attributes(attribute_facts, subject_id, predicate)
    /\ UNCHANGED <<canonical_data, nodes, attribute_facts, relationship_facts,
                   entity_registry, mig_ix, mig_pc, clock, schema_decisions>>
    /\ UNCHANGED outsideMigrate

\* A call of get_relationships and the list it returns.
GetRelationshipsCall(subject_id, predicate) ==
    /\ get_args' = <<"get_relationships", subject_id, predicate>>
    /\ get_result' = get_relationships(relationship_facts, subject_id, predicate)
    /\ UNCHANGED <<canonical_data, nodes, attribute_facts, relationship_facts,
                   entity_registry, mig_ix, mig_pc, clock, schema_decisions>>
    /\ UNCHANGED outsideMigrate

\* StorageSchema(): the empty store (lines 423-438).
StoreInit ==
    /\ MigrateIdle
    /\ LedgerIdle
    /\ MergeIdle
    /\ ReconIdle
    /\ JobIdle
    /\ PipeIdle

StoreNext ==
    \/ \E fact \in StoreAttributeFacts : add_attribute_fact(fact)
    \/ \E fact \in StoreRelationshipFacts : add_relationship_fact(fact)
    \/ \E s \in ReadSubjects, p \in ReadPredicates : GetAttributesCall(s, p)
    \/ \E s \in ReadSubjects, p \in ReadPredicates : GetRelationshipsCall(s, p)

SpecStore == StoreInit /\ [][StoreNext]_vars

\* ---- the statement store: the seven add operations (schema.py 441-467)
MaxStore == 4

\* SeriesNode(series_id=..., series_type=..., start_date=..., end_date=...,
\* next_expected_date=...) constructed at the clock reading t: the other
\* fields keep the defaults of lines 171-188, and created_at and updated_at
\* are datetime.now().isoformat() (lines 190-191).
SeriesNode(series_id, series_type, start_date, end_date, next_expected_date, t) ==
    [series_id |-> series_id,
     series_type |-> series_type,
     status |-> "active",
     frequency |-> "monthly",
     expected_amount |-> None,
     amount_tolerance |-> 10,
     start_date |-> start_date,
     end_date |-> end_date,
     next_expected_date |-> next_expected_date,
     merchant_id |-> None,
     events_count |-> 0,
     detection_confidence |-> 100,
     created_at |-> Isoformat(t),
     updated_at |-> Isoformat(t)]

\* The key under which a node is filed: entity.entity_id, event.event_id or
\* series.series_id (lines 443, 447, 451).
NodeKey(node) ==
    IF "entity_id" \in DOMAIN node THEN node.entity_id
    ELSE IF "event_id" \in DOMAIN node THEN node.event_id
    ELSE node.series_id

\* Ids are not typed by kind: a node of one kind may be filed under an id
\* that a node of another kind holds.
NodeIds == {"n1", "n2"}
StoreEntities == {EntityNode(id, "uber", 0) : id \in NodeIds}
StoreEvents == {EventNode(<<>>, id, 0) : id \in NodeIds}
\* Series with the temporal bounds left at None, and with a first and a next
\* expected date given.
StoreSeries ==
    {SeriesNode(id, "saas_subscription", None, None, None, 0) : id \in NodeIds}
    \cup {SeriesNode(id, "saas_subscription", "2025-01-01", None, "2025-02-01", 0) :
             id \in NodeIds}

\* The decisions and lineage records the callers add.
StoreDecisions ==
    {create_reconciliation_decision(<<>>, [id |-> "txn1"], c) : c \in {1, 2}}
StoreLineage == {TimedEdge("X", "Y", 1), TimedEdge("Y", "X", 2)}

\* Number of items the store holds.
StoreSize ==
    Cardinality(DOMAIN nodes) + Len(attribute_facts) + Len(relationship_facts)
       + Len(schema_decisions) + Len(entity_lineage)

\* Mutant of add_entity: the registry is emptied before the node is filed.
add_entity_Reset(entity) ==
    /\ nodes' = Put(<<>>, entity.entity_id, entity)
    /\ UNCHANGED <<canonical_data, attribute_facts, relationship_facts, entity_registry,
                   mig_ix, mig_pc, clock, get_args, get_result, schema_decisions>>
    /\ UNCHANGED outsideMigrate

\* StorageSchema.add_entity (lines 441-443)
add_entity(entity) ==
    /\ nodes' = Put(nodes, entity.entity_id, entity)
    /\ UNCHANGED <<canonical_data, attribute_facts, relationship_facts, entity_registry,
                   mig_ix, mig_pc, clock, get_args, get_result, schema_decisions>>
    /\ UNCHANGED outsideMigrate

\* StorageSchema.add_event (lines 445-447)
add_event(event) ==
    /\ nodes' = Put(nodes, event.event_id, event)
    /\ UNCHANGED <<canonical_data, attribute_facts, relationship_facts, entity_registry,
                   mig_ix, mig_pc, clock, get_args, get_result, schema_decisions>>
    /\ UNCHANGED outsideMigrate

\* StorageSchema.add_series (lines 449-451)
add_series(series) ==
    /\ nodes' = Put(nodes, series.series_id, series)
    /\ UNCHANGED <<canonical_data, attribute_facts, relationship_facts, entity_registry,
                   mig_ix, mig_pc, clock, get_args, get_result, schema_decisions>>
    /\ UNCHANGED outsideMigrate

\* StorageSchema.add_reconciliation_decision (lines 461-463)
add_reconciliation_decision(rd) ==
    /\ Len(schema_decisions) < MaxFacts
    /\ schema_decisions' = Append(schema_decisions, rd)
    /\ UNCHANGED <<canonical_data, nodes, attribute_facts, relationship_facts,
                   entity_registry, mig_ix, mig_pc, clock, get_args, get_result>>
    /\ UNCHANGED outsideMigrate

\* The add operations, in any order, on a store that starts empty.
StoreAddNext ==
    /\ StoreSize < MaxStore
    /\ \/ \E entity \in StoreEntities : add_entity(entity)
       \/ \E event \in StoreEvents : add_event(event)
       \/ \E series \in StoreSeries : add_series(series)
       \/ \E fact \in StoreAttributeFacts : add_attribute_fact(fact)
       \/ \E fact \in StoreRelationshipFacts : add_relationship_fact(fact)
       \/ \E rd \in StoreDecisions : add_reconciliation_decision(rd)
       \/ \E record \in StoreLineage : add_entity_lineage(record)

SpecStoreAdd == StoreInit /\ [][StoreAddNext]_vars

\* The stepwise resolver and the operator agree on the value returned.
ResolverAgrees ==
    res_pc = "done" => current_id = resolve_current_entity_id(entity_lineage, entity_id)

\* ------------------------------------------------------------------ C1
\* C1: on every ledger (cycles, self-edges and repeated old_entity_id
\* included) resolving the resolved id gives the resolved id again.
C1_ResolveIdempotent ==
    \A e \in LedgerIds :
        resolve_current_entity_id(entity_lineage,
            resolve_current_entity_id(entity_lineage, e))
        = resolve_current_entity_id(entity_lineage, e)

\* A ledger with a cycle and a repeated old_entity_id on which some id
\* resolves to another id.
C1_Witness ==
    /\ ~Acyclic(entity_lineage)
    /\ ~UniqueOld(entity_lineage)
    /\ \E e \in LedgerIds : resolve_current_entity_id(entity_lineage, e) # e

\* ------------------------------------------------------------------ C2
\* C2: every call of the resolver returns, on cyclic ledgers too, and the
\* id returned is reachable from the argument along lineage records.
C2_ResolveTerminates ==
    /\ (res_pc = "loop") ~> (res_pc = "done")
    /\ [](res_pc = "done" => current_id \in Closure(entity_lineage, {entity_id}))

\* A call that returned after walking into a cycle.
C2_Witness ==
    /\ res_pc = "done"
    /\ current_id \in visited
    /\ Cardinality(visited) >= 2
    /\ ~Acyclic(entity_lineage)

\* ------------------------------------------------------------------ C3
\* C3: on an acyclic ledger with one record per old_entity_id the resolver
\* returns the end of the chain: the id reachable from e that no record
\* retires; X -> Y and Y -> Z give Z for X in either order of appending.
C3_ResolveChainEnd ==
    (Acyclic(entity_lineage) /\ UniqueOld(entity_lineage)) =>
        /\ \A e \in LedgerIds :
              LET r == resolve_current_entity_id(entity_lineage, e)
              IN /\ r \in Closure(entity_lineage, {e})
                 /\ ~HasRecord(entity_lineage, r)
                 /\ (~HasRecord(entity_lineage, e) => r = e)
        /\ (entity_lineage \in {<<LineageEdge("X", "Y"), LineageEdge("Y", "Z")>>,
                                <<LineageEdge("Y", "Z"), LineageEdge("X", "Y")>>}
              => resolve_current_entity_id(entity_lineage, "X") = "Z")

\* Y -> Z appended before X -> Y.
C3_Witness ==
    /\ entity_lineage = <<LineageEdge("Y", "Z"), LineageEdge("X", "Y")>>
    /\ resolve_current_entity_id(entity_lineage, "X") = "Z"

\* ================================================================== merge claims
\* The step is an applied merge: the loop appended a merge-log entry.
Applied == Len(merge_log') = Len(merge_log) + 1

\* The pair the for loop is about to consume.
NextPair == duplicates[pair_ix + 1]

\* The step consumes or fails on the next pair of the list.
HandlesPair == merge_pc = "loop" /\ pair_ix < Len(duplicates) /\ vars' # vars

IdsOf(entry) == {entry.primary, entry.secondary}

\* ------------------------------------------------------------------ C4
\* C4: within one run no entity id takes part, as primary or secondary,
\* in more than one applied merge. Stated over the merges of two different
\* entities, so that a violation does not rest on a pair of an id with
\* itself (C7).
C4_AtMostOneMergePerId ==
    \A i, j \in 1..Len(merge_log) :
        (/\ i < j
         /\ merge_log[i].primary # merge_log[i].secondary
         /\ merge_log[j].primary # merge_log[j].secondary)
        => IdsOf(merge_log[i]) \cap IdsOf(merge_log[j]) = {}

\* ------------------------------------------------------------------ C5
\* C5: an applied merge leaves the primary with the sum of the two
\* transaction counts and the sum of the two amounts it found (a missing
\* field counting as 0).
C5_AggregatesSummed ==
    [][Applied =>
        LET e == merge_log'[Len(merge_log')]
            before_p == merged_entities[e.primary]
            before_s == merged_entities[e.secondary]
            after_p == merged_entities'[e.primary]
        IN /\ {"transaction_count", "total_amount_usd"} \subseteq DOMAIN after_p
           /\ after_p.transaction_count =
                Get(before_p, "transaction_count", 0) + Get(before_s, "transaction_count", 0)
           /\ after_p.total_amount_usd =
                Get(before_p, "total_amount_usd", 0) + Get(before_s, "total_amount_usd", 0)
    ]_vars

\* A (tx 10, amount 500) took in B (tx 3, amount 90): 13 and 590.
C5_Witness ==
    /\ Len(merge_log) = 1
    /\ merge_log[1].primary = "A" /\ merge_log[1].secondary = "B"
    /\ merge_log[1].similarity = 92
    /\ merged_entities["A"].transaction_count = 13
    /\ merged_entities["A"].total_amount_usd = 590
    /\ merged_entities["B"].transaction_count = 3

\* ------------------------------------------------------------------ C6
\* C6: a run never removes an entity: the returned collection has the ids
\* of the input, every merged secondary stays in it with status
\* "superseded", and an applied merge leaves its secondary with
\* superseded_by = the primary's id.
C6_NothingRemoved ==
    /\ [](merge_pc \in {"loop", "returned"} =>
            /\ DOMAIN merged_entities = DOMAIN entities
            /\ DOMAIN merged_entities = MergeIds
            /\ \A i \in 1..Len(merge_log) :
                  /\ merge_log[i].secondary \in DOMAIN merged_entities
                  /\ Get(merged_entities[merge_log[i].secondary], "status", None)
                        = "superseded")
    /\ [][/\ DOMAIN entities' = DOMAIN entities
          /\ Applied =>
                LET e == merge_log'[Len(merge_log')]
                IN /\ e.secondary \in DOMAIN merged_entities'
                   /\ Get(merged_entities'[e.secondary], "status", None) = "superseded"
                   /\ Get(merged_entities'[e.secondary], "superseded_by", None) = e.primary
       ]_vars

\* A returned run that merged twice: all three ids are still there.
C6_Witness ==
    /\ merge_pc = "returned"
    /\ Len(merge_log) = 2
    /\ merge_log[1].secondary # merge_log[2].secondary
    /\ DOMAIN merged_entities = MergeIds

\* ------------------------------------------------------------------ C7
\* C7: a pair of an id with itself emits no lineage record and no
\* merge-log entry and leaves the record unchanged; no lineage record has
\* old_entity_id = new_entity_id.
C7_NoSelfMerge ==
    [][/\ (HandlesPair /\ NextPair[1] = NextPair[2]) =>
             /\ entity_lineages' = entity_lineages
             /\ merge_log' = merge_log
             /\ merged_entities' = merged_entities
       /\ \A i \in 1..Len(entity_lineages') :
             entity_lineages'[i].old_entity_id # entity_lineages'[i].new_entity_id
    ]_vars

\* ------------------------------------------------------------------ C8
\* C8: a pair that names an id absent from the collection is skipped: it
\* emits nothing, changes no entity, and the loop goes on to the next pair.
C8_AbsentIdSkipped ==
    [][(HandlesPair /\ (NextPair[1] \notin DOMAIN merged_entities
                         \/ NextPair[2] \notin DOMAIN merged_entities)) =>
            /\ merge_pc' = "loop"
            /\ pair_ix' = pair_ix + 1
            /\ entity_lineages' = entity_lineages
            /\ merge_log' = merge_log
            /\ merged_entities' = merged_entities
    ]_vars

\* ================================================================== decision claims
\* ------------------------------------------------------------------ C9
\* C9: once main has processed the overlap groups and the remaining
\* observations, every canonical record carries the decision_id of exactly
\* one decision of the list, no two records share a decision, and there
\* are as many decisions as records, single-observation records included.
C9_OneDecisionPerRecord ==
    recon_pc = "done" =>
        /\ Len(reconciliation_decisions) = Len(canonical_transactions)
        /\ \A i \in 1..Len(canonical_transactions) :
              /\ "reconciliation_decision_id" \in DOMAIN canonical_transactions[i]
              /\ Cardinality({j \in 1..Len(reconciliation_decisions) :
                    reconciliation_decisions[j].decision_id
                        = canonical_transactions[i].reconciliation_decision_id}) = 1
        /\ \A i, j \in 1..Len(canonical_transactions) :
              canonical_transactions[i].reconciliation_decision_id
                  = canonical_transactions[j].reconciliation_decision_id => i = j

\* A finished run with a multi-observation record and a single-observation one.
C9_Witness ==
    /\ recon_pc = "done"
    /\ \E i, j \in 1..Len(reconciliation_decisions) :
          /\ Len(reconciliation_decisions[i].observation_ids) = 2
          /\ Len(reconciliation_decisions[j].observation_ids) = 1
          /\ canonical_transactions[j].reconciliation_decision_id
                = reconciliation_decisions[j].decision_id

\* ------------------------------------------------------------------ C10
\* C10: decision_method is "single_source" exactly when one observation was
\* given and "automated" for every other count; observation_ids holds the
\* id of each input observation (observation_id, or id when that is
\* missing or empty), in input order.
C10_MethodAndObservationIds ==
    dec_pc = "returned" =>
        /\ (decision.decision_method = "single_source") <=> (Len(observations) = 1)
        /\ (Len(observations) # 1) => decision.decision_method = "automated"
        /\ Len(decision.observation_ids) = Len(observations)
        /\ \A i \in 1..Len(observations) :
              decision.observation_ids[i] =
                 (IF "observation_id" \in DOMAIN observations[i]
                      /\ observations[i].observation_id # ""
                  THEN observations[i].observation_id
                  ELSE IF "id" \in DOMAIN observations[i]
                  THEN observations[i].id
                  ELSE None)

\* The call on the one observation obs1.
C10_Witness ==
    /\ dec_pc = "returned"
    /\ Len(observations) = 1
    /\ decision.observation_ids = <<"obs1">>
    /\ decision.decision_method = "single_source"

\* ------------------------------------------------------------------ C11
\* The sum of the confidences of the entries of a field_strategies mapping.
RECURSIVE TotalConfidence(_)
TotalConfidence(fs) ==
    IF DOMAIN fs = {} THEN 0
    ELSE LET f == CHOOSE x \in DOMAIN fs : TRUE
         IN fs[f].confidence + TotalConfidence([x \in DOMAIN fs \ {f} |-> fs[x]])

\* C11: the confidence of a decision is the arithmetic mean of the
\* confidences of the entries of its field_strategies, and 1.0 when there
\* is no entry; the divisor is never zero, also for a canonical record
\* without any schema field.
C11_ConfidenceIsMean ==
    dec_pc = "returned" =>
        LET fs == decision.field_strategies
            n == Cardinality(DOMAIN fs)
            c == decision.confidence
        IN /\ c.count # 0
           /\ (n = 0 => c.sum = 100 * c.count)
           /\ (n # 0 => c.sum * n = TotalConfidence(fs) * c.count)

\* A decision over two entries of confidence 0.90 and 0.75: mean 1.65 / 2.
C11_Witness ==
    /\ dec_pc = "returned"
    /\ DOMAIN decision.field_strategies = {"amount", "description"}
    /\ decision.field_strategies["amount"].confidence = 90
    /\ decision.field_strategies["description"].confidence = 75
    /\ decision.confidence = [sum |-> 165, count |-> 2]

\* ------------------------------------------------------------------ C12
\* C12: every predicate of the field schema that is present on the
\* canonical record has an entry in field_strategies and one statement id
\* in created_statement_ids; a value without reconciliation metadata (a raw
\* scalar, or a dict lacking the keys) gives strategy "unknown", confidence
\* 1.0 and no alternatives; predicates absent from the record or outside
\* the schema have no entry.
C12_EntryPerSchemaField ==
    dec_pc = "returned" =>
        LET fs == decision.field_strategies
            ids == decision.created_statement_ids
            schema == {FIELD_SCHEMA[i] : i \in 1..Len(FIELD_SCHEMA)}
            present == schema \cap DOMAIN canonical
        IN /\ DOMAIN fs = present
           /\ Len(ids) = Cardinality(present)
           /\ \A f \in present :
                 /\ Cardinality({i \in 1..Len(ids) :
                        ids[i] = DecisionStatementId(canonical, f)}) = 1
                 /\ f \in DOMAIN fs
                 /\ (DOMAIN canonical[f] \cap {"reconciliation_method",
                        "source_observation_id", "confidence", "alternatives"} = {})
                      => /\ fs[f].strategy = "unknown"
                         /\ fs[f].confidence = 100
                         /\ fs[f].alternatives = <<>>

\* ------------------------------------------------------------------ C13
\* C13: after reconciliation followed by migration, every id of a
\* decision's created_statement_ids is the statement_id of an attribute
\* fact that the migration created for the decision's canonical record and
\* one of its fields, and that fact carries the decision's decision_id.
C13_StatementIdsRealised ==
    (recon_pc = "done" /\ mig_pc = "done") =>
        \A i \in 1..Len(reconciliation_decisions) :
            LET d == reconciliation_decisions[i]
            IN \A k \in 1..Len(d.created_statement_ids) :
                  \E j \in 1..Len(attribute_facts) :
                      /\ attribute_facts[j].statement_id = d.created_statement_ids[k]
                      /\ attribute_facts[j].subject_id
                            = "evt_" \o canonical_transactions[i]["id"]
                      /\ attribute_facts[j].predicate \in DOMAIN d.field_strategies
                      /\ attribute_facts[j].reconciliation_decision_id = d.decision_id

\* ------------------------------------------------------------------ C14
\* C14: statement ids are unique: all statements of the store, attribute
\* facts and relationship facts, have pairwise distinct statement_id, also
\* when two ids for the same prefix, subject and predicate are generated
\* without the clock having advanced in between.
C14_StatementIdsUnique ==
    LET statements == attribute_facts \o relationship_facts
    IN \A i, j \in 1..Len(statements) :
          statements[i].statement_id = statements[j].statement_id => i = j

\* The candidate pairs are over ids of the collection, none pairs an id
\* with itself and no id occurs in two pairs: a list on which the defects
\* of C4, C7 and C8 do not show.
DisjointPairs ==
    /\ \A i \in 1..Len(duplicates) :
          /\ duplicates[i][1] # duplicates[i][2]
          /\ {duplicates[i][1], duplicates[i][2]} \subseteq MergeIds
    /\ \A i, j \in 1..Len(duplicates) :
          i < j => {duplicates[i][1], duplicates[i][2]}
                      \cap {duplicates[j][1], duplicates[j][2]} = {}

\* ------------------------------------------------------------------ C15
\* C15: the entities file is overwritten only after the backup file has
\* been written, and the backup holds the previous state: its entities are
\* the records the entities file held when the run loaded it, before any
\* merge of the run.
C15_BackupHoldsPreviousState ==
    [][DisjointPairs =>
          /\ (job_pc = "merging" /\ job_pc' = "backed_up") =>
                 backup_file'["entities"] = entities_file["entities"]
          /\ (entities_file' # entities_file) =>
                 /\ job_pc = "backed_up"
                 /\ backup_file["entities"] = entities_file["entities"]
    ]_vars

\* ------------------------------------------------------------------ C16
\* C16: in an applied merge of the pair (id1, id2) the primary is the
\* entity with the strictly greater transaction_count when the pair is
\* processed (a missing count reads 0), id1 when the counts are equal, and
\* the other entity is the secondary.
C16_PrimaryByCount ==
    [][Applied =>
        LET e == merge_log'[Len(merge_log')]
            id1 == NextPair[1]
            id2 == NextPair[2]
            c1 == Get(merged_entities[id1], "transaction_count", 0)
            c2 == Get(merged_entities[id2], "transaction_count", 0)
        IN /\ (c1 > c2 => e.primary = id1 /\ e.secondary = id2)
           /\ (c2 > c1 => e.primary = id2 /\ e.secondary = id1)
           /\ (c1 = c2 => e.primary = id1 /\ e.secondary = id2)
    ]_vars

\* The pair (B, A) with 10 transactions each: B, the first id, took in A.
C16_Witness ==
    /\ Len(merge_log) = 1
    /\ duplicates[1][1] = "B" /\ duplicates[1][2] = "A"
    /\ merge_log[1].primary = "B" /\ merge_log[1].secondary = "A"
    /\ merged_entities["B"].transaction_count = 20
    /\ merged_entities["A"].transaction_count = 10

\* ------------------------------------------------------------------ C17
\* C17: every applied merge appends exactly one EntityLineage record and
\* one merge-log entry and no other step appends either; the record has
\* operation "merge", old_entity_id = the secondary, new_entity_id = the
\* primary, confidence = the similarity of the pair and performed_by
\* "automated_merge"; the merge leaves the log entry, the primary and the
\* secondary with the lineage_id of the record; the lineage ids of a job
\* are pairwise distinct; there are as many lineage records as log entries.
C17_OneLineagePerMerge ==
    /\ [](/\ Len(entity_lineages) = Len(merge_log)
          /\ \A i \in 1..Len(entity_lineages) :
                /\ entity_lineages[i].operation = "merge"
                /\ entity_lineages[i].old_entity_id = merge_log[i].secondary
                /\ entity_lineages[i].new_entity_id = merge_log[i].primary
                /\ entity_lineages[i].confidence = merge_log[i].similarity
                /\ entity_lineages[i].performed_by = "automated_merge"
                /\ entity_lineages[i].lineage_id = merge_log[i].lineage_id
          /\ \A i, j \in 1..Len(entity_lineages) :
                entity_lineages[i].lineage_id = entity_lineages[j].lineage_id => i = j)
    /\ [][IF Applied
          THEN LET e == merge_log'[Len(merge_log')]
               IN /\ Len(entity_lineages') = Len(entity_lineages) + 1
                  /\ e.similarity = NextPair[3]
                  /\ {e.primary, e.secondary} = {NextPair[1], NextPair[2]}
                  /\ Get(merged_entities'[e.primary], "lineage_id", None) = e.lineage_id
                  /\ Get(merged_entities'[e.secondary], "lineage_id", None) = e.lineage_id
          ELSE /\ entity_lineages' = entity_lineages
               /\ merge_log' = merge_log
       ]_vars

\* A returned run of two merges: two records, lineage_000000 for the pair
\* (A, B, 0.92) and lineage_000001.
C17_Witness ==
    /\ merge_pc = "returned"
    /\ Len(merge_log) = 2
    /\ Len(entity_lineages) = 2
    /\ entity_lineages[1].lineage_id = "lineage_000000"
    /\ entity_lineages[1].old_entity_id = "B"
    /\ entity_lineages[1].new_entity_id = "A"
    /\ entity_lineages[1].confidence = 92
    /\ entity_lineages[2].lineage_id = "lineage_000001"

\* ------------------------------------------------------------------ C18
\* C18: where the ledger holds several records with the old_entity_id the
\* resolver stands at, the resolver follows the one with the latest
\* timestamp, whatever the order in which the records were appended.
C18_FollowsLatestTimestamp ==
    [][(/\ res_pc = "loop"
        /\ current_id \notin visited
        /\ visited' = visited \cup {current_id}
        /\ HasRecord(entity_lineage, current_id))
       => \E j \in 1..Len(entity_lineage) :
             /\ entity_lineage[j].old_entity_id = current_id
             /\ entity_lineage[j].new_entity_id = current_id'
             /\ \A k \in 1..Len(entity_lineage) :
                   entity_lineage[k].old_entity_id = current_id
                      => entity_lineage[k].timestamp <= entity_lineage[j].timestamp
    ]_vars

\* ------------------------------------------------------------------ C19
InUnitInterval(c) == c \in 0..100

\* C19: every stored confidence lies in [0,1] (0..100 hundredths): that of
\* every EntityLineage record of a merge run, of every field_strategies
\* entry and the overall confidence of every ReconciliationDecision, and
\* that of the Provenance of every fact built by migration.
C19_ConfidencesInUnitInterval ==
    /\ \A i \in 1..Len(entity_lineages) : InUnitInterval(entity_lineages[i].confidence)
    /\ \A i \in 1..Len(reconciliation_decisions) :
          LET d == reconciliation_decisions[i]
          IN /\ \A f \in DOMAIN d.field_strategies :
                   InUnitInterval(d.field_strategies[f].confidence)
             /\ d.confidence.sum >= 0
             /\ d.confidence.sum <= 100 * d.confidence.count
    /\ \A i \in 1..Len(attribute_facts) :
          InUnitInterval(attribute_facts[i].provenance.confidence)
    /\ \A i \in 1..Len(relationship_facts) :
          InUnitInterval(relationship_facts[i].provenance.confidence)

\* ------------------------------------------------------------------ C20
\* The facts of the list with the subject asked for and, when a predicate
\* is given (anything but None), with that predicate, in list order.
FactsAskedFor(facts_all, subject_id, predicate) ==
    SelectSeq(facts_all, LAMBDA f : /\ f.subject_id = subject_id
                                    /\ (predicate # None => f.predicate = predicate))

\* C20: a read returns exactly the facts of its list with the subject asked
\* for and, for every given predicate value (the empty string included),
\* with that predicate, in the order they were added; an unknown subject
\* gives the empty sequence; the read leaves the store unchanged.
C20_ReadsFilterExactly ==
    [][(get_args' # <<>> /\ <<get_args, get_result>>' # <<get_args, get_result>>)
       => /\ attribute_facts' = attribute_facts
          /\ relationship_facts' = relationship_facts
          /\ nodes' = nodes
          /\ get_result' =
                FactsAskedFor(IF get_args'[1] = "get_attributes"
                              THEN attribute_facts ELSE relationship_facts,
                              get_args'[2], get_args'[3])
    ]_vars

\* ------------------------------------------------------------------ C21
\* The four lists of the store.
StoreLists == <<attribute_facts, relationship_facts, schema_decisions, entity_lineage>>

\* C21: every add does nothing beyond its own insertion. A step that
\* changes nodes changes the entry of the id of the node given and nothing
\* else; a step that changes a list appends one item to that list, keeps
\* its earlier content as a prefix, and leaves nodes and the other lists
\* alone. No step removes an item from a list.
C21_AddsOnlyInsert ==
    [][/\ nodes' # nodes =>
            /\ StoreLists' = StoreLists
            /\ \E id \in DOMAIN nodes' :
                  /\ NodeKey(nodes'[id]) = id
                  /\ DOMAIN nodes' = DOMAIN nodes \cup {id}
                  /\ \A k \in DOMAIN nodes \ {id} : nodes'[k] = nodes[k]
       /\ \A k \in 1..4 :
            /\ Len(StoreLists'[k]) >= Len(StoreLists[k])
            /\ StoreLists'[k] # StoreLists[k] =>
                  /\ Len(StoreLists'[k]) = Len(StoreLists[k]) + 1
                  /\ SubSeq(StoreLists'[k], 1, Len(StoreLists[k])) = StoreLists[k]
                  /\ nodes' = nodes
                  /\ \A j \in 1..4 : j # k => StoreLists'[j] = StoreLists[j]
    ]_vars

\* Adds have filed two nodes of different kinds and appended two different
\* attribute facts.
C21_Witness ==
    /\ DOMAIN nodes = NodeIds
    /\ "series_id" \in DOMAIN nodes["n1"]
    /\ "entity_id" \in DOMAIN nodes["n2"]
    /\ Len(attribute_facts) = 2
    /\ attribute_facts[1] # attribute_facts[2]

\* ------------------------------------------------------------------ C22
\* C22: when the reconciliation command or the migration command returned
\* non-zero, the pipeline has not reported completion and ends with a
\* non-zero status; when the merge command returned non-zero, the
\* reconciliation stage has run all the same.
C22_FailureReported ==
    pipe_pc = "exited" =>
        /\ (\E stage \in {"reconcile", "migrate"} :
                Get(returncodes, stage, 0) # 0)
              => /\ CompleteMessage \notin printed
                 /\ exit_status # 0
        /\ Get(returncodes, "merge", 0) # 0 => "reconcile" \in DOMAIN returncodes

\* ------------------------------------------------------------------ C23
\* C23: the metadata of the lineage record of an applied merge describes
\* the secondary as it was before the merge: its canonical name, its
\* transaction_count (a missing count reads 0) and its total_amount_usd,
\* whether the secondary is id1 or id2 of the pair.
C23_MetadataOfSecondary ==
    [][(Applied /\ NextPair[1] # NextPair[2]) =>
        LET rec == entity_lineages'[Len(entity_lineages')]
            secondary == merged_entities[rec.old_entity_id]
        IN /\ rec.metadata.merged_canonical_name = Get(secondary, "canonical_name", None)
           /\ rec.metadata.transaction_count_transferred =
                 Get(secondary, "transaction_count", 0)
           /\ rec.metadata.amount_transferred = Get(secondary, "total_amount_usd", 0)
    ]_vars

\* ------------------------------------------------------------------ C24
\* The fields of an entity that a merge writes.
MergedFields ==
    {"transaction_count", "total_amount_usd", "aliases", "merged_from", "status",
     "superseded_by"}

\* C24: a second run with the same candidate pairs on the collection the
\* first run produced changes no entity's transaction_count,
\* total_amount_usd, aliases, merged_from, status or superseded_by and adds
\* no lineage record.
C24_SecondRunNoOp ==
    (merge_pc = "returned" /\ first_run # <<>> /\ DisjointPairs) =>
        /\ Len(entity_lineages) = first_run.lineage_count
        /\ \A id \in DOMAIN first_run.entities : \A f \in MergedFields :
              /\ f \in DOMAIN merged_entities[id] <=> f \in DOMAIN first_run.entities[id]
              /\ f \in DOMAIN merged_entities[id] =>
                    merged_entities[id][f] = first_run.entities[id][f]

\* ------------------------------------------------------------------ C25
\* C25: within one reconciliation run no statement id occurs twice in the
\* created_statement_ids of one decision and none occurs in the
\* created_statement_ids of two decisions, whatever overlap groups are
\* supplied.
C25_CreatedStatementIdsUnique ==
    \A i, j \in 1..Len(reconciliation_decisions) :
        \A k \in 1..Len(reconciliation_decisions[i].created_statement_ids) :
            \A l \in 1..Len(reconciliation_decisions[j].created_statement_ids) :
                reconciliation_decisions[i].created_statement_ids[k]
                      = reconciliation_decisions[j].created_statement_ids[l]
                   => (i = j /\ k = l)

\* ------------------------------------------------------------------ C26
\* C26: the lineage records a merge run has emitted form an acyclic graph
\* over entity ids: no chain old -> new = old' -> new' ... comes back to the
\* id it started from.
C26_LineageAcyclic == Acyclic(entity_lineages)

\* ------------------------------------------------------------------ C27
\* C27: with the lineage records of a returned merge run as the ledger,
\* every entity id of the collection resolves to an entity that is not
\* superseded, and a superseded entity resolves to the same id as the
\* entity named by its superseded_by.
C27_ResolvesToLiveEntity ==
    merge_pc = "returned" =>
        \A e \in DOMAIN merged_entities :
            /\ Get(merged_entities[resolve_current_entity_id(entity_lineages, e)],
                   "status", None) # "superseded"
            /\ Get(merged_entities[e], "status", None) = "superseded" =>
                  resolve_current_entity_id(entity_lineages, e)
                     = resolve_current_entity_id(entity_lineages,
                                                 merged_entities[e].superseded_by)

\* ------------------------------------------------------------------ C28
\* Sum of transaction_count (a missing count reads 0) over the entities ids.
RECURSIVE TransactionTotal(_, _)
TransactionTotal(heap, ids) ==
    IF ids = {} THEN 0
    ELSE LET id == CHOOSE x \in ids : TRUE
         IN Get(heap[id], "transaction_count", 0) + TransactionTotal(heap, ids \ {id})

LiveIds(heap) == {id \in DOMAIN heap : Get(heap[id], "status", None) # "superseded"}

\* C28: when the merge of a job has returned, the transaction counts of the
\* entities that are not superseded add up to the transaction counts of
\* all entities of the file the job loaded (which holds no superseded
\* entity), for every list of candidate pairs.
C28_TransactionsConserved ==
    (job_pc = "merging" /\ merge_pc = "returned") =>
        TransactionTotal(merged_entities, LiveIds(merged_entities))
           = TransactionTotal(entities_file.entities, DOMAIN entities_file.entities)

\* ------------------------------------------------------------------ C29
\* C29: in the report of a job that merged, entities_merged is the number
\* of applied merges (the length of merge_log) and entities_after is the
\* number of entities that are not superseded after the run.
C29_ReportCounts ==
    (job_pc = "returned" /\ "merge_log" \in DOMAIN merge_report /\ DisjointPairs) =>
        /\ merge_report.entities_merged = Len(merge_report.merge_log)
        /\ merge_report.entities_after = Cardinality(LiveIds(merged_entities))

\* ------------------------------------------------------------------ C30
\* The EntityNodes of the store whose aliases name the merchant.
MerchantNodes(merchant_name) ==
    {id \in DOMAIN nodes : /\ "entity_id" \in DOMAIN nodes[id]
                           /\ nodes[id].aliases = <<merchant_name>>}

\* C30: during and after the migration of a list of transactions into an
\* empty store, the subject of every attribute fact and the subject and
\* target of every relationship fact is the id of a node of the store;
\* every merchant name of a migrated transaction has exactly one EntityNode,
\* filed under the id the registry gives the name; two different names
\* have different ids; every statement is active (valid_to and
\* superseded_at unset).
C30_StoreClosedAfterMigration ==
    /\ \A i \in 1..Len(attribute_facts) :
          /\ attribute_facts[i].subject_id \in DOMAIN nodes
          /\ attribute_facts[i].temporal.valid_to = None
          /\ attribute_facts[i].temporal.superseded_at = None
    /\ \A i \in 1..Len(relationship_facts) :
          /\ relationship_facts[i].subject_id \in DOMAIN nodes
          /\ relationship_facts[i].target_id \in DOMAIN nodes
          /\ "entity_id" \in DOMAIN nodes[relationship_facts[i].target_id]
          /\ relationship_facts[i].temporal.valid_to = None
          /\ relationship_facts[i].temporal.superseded_at = None
    /\ \A i \in 1..mig_ix :
          ("merchant" \in DOMAIN canonical_data[i]
              /\ ~RaisesOnAmount(canonical_data[i])) =>
             canonical_data[i]["merchant"].scalar \in DOMAIN entity_registry
    /\ \A m \in DOMAIN entity_registry : MerchantNodes(m) = {entity_registry[m]}
    /\ \A m1, m2 \in DOMAIN entity_registry :
          entity_registry[m1] = entity_registry[m2] => m1 = m2

\* A finished migration of two transactions with two different merchants:
\* two EntityNodes, two merchant relationships with different targets.
C30_Witness ==
    /\ mig_pc = "done"
    /\ mig_ix = 2
    /\ Cardinality(DOMAIN entity_registry) = 2
    /\ Len(relationship_facts) = 2
    /\ relationship_facts[1].target_id # relationship_facts[2].target_id
    /\ Len(attribute_facts) = 4

====
